---- MODULE Spec2Model ----
(***************************************************************************)
(* Governance / treasury state machines of the TreasuryDAO repository:     *)
(*   contracts/SimpleTreasuryDAO.sol  (deposit-gated encrypted voting)     *)
(*   contracts/TreasuryDAO.sol        (confidential-spend treasury)        *)
(* Every public entry point is one action.  A call that reverts leaves the *)
(* contract state untouched (EVM revert); the error it reverts with is     *)
(* computed by the <op>Error operators, in the order of the checks in the  *)
(* source.  Variables prefixed g_ are history (ghost) variables that only  *)
(* record what calls happened; no handler reads them.                      *)
(***************************************************************************)
EXTENDS Integers, Sequences, FiniteSets, TLC

VARIABLES
    now,               \* block.timestamp of the ledger
    \* ---- SimpleTreasuryDAO storage
    minDepositToVote,  \* uint256 minDepositToVote
    sProposals,        \* Proposal[] proposals   (id i is element i + 1)
    deposits,          \* mapping(address => uint256) deposits
    hasVoted,          \* mapping(uint256 => mapping(address => bool)) hasVoted
    sBalance,          \* address(this).balance
    \* ---- SimpleTreasuryDAO history
    g_net,             \* per identity: sum of successful deposits - withdrawals
    g_votes,           \* per proposal, per identity: number of successful votes
    g_finalizes,       \* per proposal: number of successful finalizeProposal calls
    frames,            \* the withdraw calls waiting for their transfer to return,
                       \* outermost first, each with the storage it began with
    \* ---- TreasuryDAO storage
    quorum,            \* uint256 quorum
    treasury,          \* euint64 _treasury
    tProposals,        \* Proposal[] proposals   (id i is element i + 1)
    voted,             \* mapping(uint256 => mapping(address => bool)) voted
    isMember,          \* mapping(address => bool) isMember
    \* ---- TreasuryDAO history
    g_executes,        \* per proposal: number of successful execute calls
    g_cancels,         \* per proposal: number of successful cancelProposal calls
    g_quorumFailed,    \* ids on which an execute call failed with QuorumNotReached
    g_relaxed,         \* those of them where, since the latest such failure, the
                       \* quorum was lowered or a voteYes call succeeded
    \* ---- a second deployment of TreasuryDAO, run side by side with the first
    other,             \* its storage and history, while the first is being run
    pending            \* the call one deployment has taken and the other has not

sVars == <<minDepositToVote, sProposals, deposits, hasVoted, sBalance,
           g_net, g_votes, g_finalizes, frames>>
pVars == <<other, pending>>
tVars == <<quorum, treasury, tProposals, voted, isMember,
           g_executes, g_cancels, g_quorumFailed, g_relaxed, pVars>>
vars == <<now, sVars, tVars>>

----------------------------------------------------------------------------
(* Bounds of the model *)

\* proposals.length is capped
MaxProposals == 1
\* deposits[a] is capped
MaxBalance == 2
\* withdraw calls nested in one another
MaxDepth == 2

----------------------------------------------------------------------------
(* Ledger runtime: identities and time *)

\* acting identities; "o" deployed the contracts
Address == {"o", "a"}
NullAddress == "0x0"
owner == "o"
\* address(this), as it appears in a ciphertext's access list
This == "this"

\* Solidity's `1 days`
DAY == 86400

\* the instants the clock visits: deployment, the deadline of a one-day vote
\* opened at deployment, and the second after it
TimePoints == {0, DAY, DAY + 1}

----------------------------------------------------------------------------
(* Ciphertext engine: an euint64 handle is its plaintext and its access    *)
(* list.  euint64 arithmetic wraps; the width is scaled down to EuintBits. *)

EuintBits == 2
EuintMod == 2 ^ EuintBits

\* a fresh handle: nobody is on its access list yet
Fresh(v) == [val |-> v, acl |-> {}]

FHE_asEuint64(v) == Fresh(v % EuintMod)
FHE_eq(x, y) == Fresh(x.val = y.val)
FHE_le(x, y) == Fresh(x.val <= y.val)
FHE_select(c, x, y) == Fresh(IF c.val THEN x.val ELSE y.val)
FHE_add(x, y) == Fresh((x.val + y.val) % EuintMod)
FHE_sub(x, y) == Fresh((x.val - y.val + EuintMod) % EuintMod)
FHE_allow(x, who) == [x EXCEPT !.acl = @ \cup {who}]
FHE_allowThis(x) == FHE_allow(x, This)
\* importExternal: the handle of an externally encrypted input of plaintext v
FHE_fromExternal(v) == Fresh(v % EuintMod)

----------------------------------------------------------------------------
(* SimpleTreasuryDAO *)

\* inputs the callers choose from
Values == 0..MaxBalance
WithdrawAmounts == 0..(MaxBalance + 1)
Titles == {"t"}
Descriptions == {"d"}
\* <<amount, recipient, votingPeriodDays>>: one acceptable request, and the
\* requests that break one precondition each
CreateArgs == {<<1, "b", 1>>, <<0, "b", 1>>, <<1, NullAddress, 1>>,
               <<1, "b", 0>>, <<1, "b", 31>>}
\* <<plaintext of the encrypted ballot, whether its proof verifies>>
BallotInputs == {<<0, TRUE>>, <<1, TRUE>>, <<2, TRUE>>, <<1, FALSE>>}
ProposalIdInputs == 0..MaxProposals
MinDeposits == {0, 1}

SimpleP(id) == sProposals[id + 1]
SimpleIds == 0..(Len(sProposals) - 1)

SimpleInit ==
    /\ minDepositToVote \in MinDeposits
    /\ sProposals = <<>>
    /\ deposits = [a \in Address |-> 0]
    /\ hasVoted = {}
    /\ sBalance = 0
    /\ g_net = [a \in Address |-> 0]
    /\ g_votes = <<>>
    /\ g_finalizes = <<>>
    /\ frames = <<>>

DepositError(value) ==
    IF value = 0 THEN "InvalidAmount" ELSE "ok"

\* deposit recording twice the value received
Credited_Twice(caller, value) == [deposits EXCEPT ![caller] = @ + 2 * value]

\* deposits[msg.sender] += msg.value
Credited(caller, value) == [deposits EXCEPT ![caller] = @ + value]

Deposit(caller, value) ==
    /\ deposits[caller] + value <= MaxBalance
    /\ IF DepositError(value) = "ok"
       THEN /\ deposits' = Credited(caller, value)
            /\ sBalance' = sBalance + value
            /\ g_net' = [g_net EXCEPT ![caller] = @ + value]
       ELSE UNCHANGED <<deposits, sBalance, g_net>>
    /\ UNCHANGED <<now, tVars, minDepositToVote, sProposals, hasVoted,
                   g_votes, g_finalizes>>

\* withdraw refusing the full balance
WithdrawError_BelowBalanceOnly(caller, amount, received) ==
    IF deposits[caller] <= amount THEN "InvalidAmount"
    ELSE IF sBalance < amount \/ ~received THEN "TransferFailed"
    ELSE "ok"

\* `received`: whether the caller accepts the transfer; transfer() reverts
\* when the contract lacks the funds or the caller refuses them
WithdrawError(caller, amount, received) ==
    IF deposits[caller] < amount THEN "InvalidAmount"
    ELSE IF sBalance < amount \/ ~received THEN "TransferFailed"
    ELSE "ok"

\* deposits[msg.sender] = 0
Debited_All(caller, amount) == [deposits EXCEPT ![caller] = 0]

\* deposits[msg.sender] -= amount
Debited(caller, amount) == [deposits EXCEPT ![caller] = @ - amount]

\* withdraw keeping the debit when the transfer fails
Withdraw_NoRollback(caller, amount, received) ==
    /\ IF WithdrawError(caller, amount, received) \in {"ok", "TransferFailed"}
       THEN /\ deposits' = Debited(caller, amount)
            /\ sBalance' = IF received THEN sBalance - amount ELSE sBalance
            /\ g_net' = [g_net EXCEPT ![caller] = @ - amount]
       ELSE UNCHANGED <<deposits, sBalance, g_net>>
    /\ UNCHANGED <<now, tVars, minDepositToVote, sProposals, hasVoted,
                   g_votes, g_finalizes>>

Withdraw(caller, amount, received) ==
    /\ IF WithdrawError(caller, amount, received) = "ok"
       THEN /\ deposits' = Debited(caller, amount)
            /\ sBalance' = sBalance - amount
            /\ g_net' = [g_net EXCEPT ![caller] = @ - amount]
       ELSE UNCHANGED <<deposits, sBalance, g_net>>
    /\ UNCHANGED <<now, tVars, minDepositToVote, sProposals, hasVoted,
                   g_votes, g_finalizes>>

\* createProposal refusing a voting period of 30 days
SimpleCreateError_Max29(caller, amount, recipient, votingPeriodDays) ==
    IF deposits[caller] < minDepositToVote THEN "InsufficientDeposit"
    ELSE IF amount = 0 THEN "InvalidAmount"
    ELSE IF recipient = NullAddress THEN "InvalidRecipient"
    ELSE IF votingPeriodDays = 0 \/ votingPeriodDays >= 30 THEN "InvalidDeadline"
    ELSE "ok"

SimpleCreateError(caller, amount, recipient, votingPeriodDays) ==
    IF deposits[caller] < minDepositToVote THEN "InsufficientDeposit"
    ELSE IF amount = 0 THEN "InvalidAmount"
    ELSE IF recipient = NullAddress THEN "InvalidRecipient"
    ELSE IF votingPeriodDays = 0 \/ votingPeriodDays > 30 THEN "InvalidDeadline"
    ELSE "ok"

\* createProposal numbering the proposals from one
NewSimpleProposal_IdFromOne(caller, title, description, amount, recipient, votingPeriodDays) ==
    [id |-> Len(sProposals) + 1,
     title |-> title,
     description |-> description,
     proposer |-> caller,
     amount |-> amount,
     recipient |-> recipient,
     deadline |-> now + votingPeriodDays * DAY,
     encryptedYesVotes |-> FHE_allowThis(FHE_asEuint64(0)),
     encryptedNoVotes |-> FHE_allowThis(FHE_asEuint64(0)),
     finalized |-> FALSE]

\* uint256 proposalId = proposals.length, the value createProposal returns
SimpleCreateReturns == Len(sProposals)

NewSimpleProposal(caller, title, description, amount, recipient, votingPeriodDays) ==
    [id |-> Len(sProposals),
     title |-> title,
     description |-> description,
     proposer |-> caller,
     amount |-> amount,
     recipient |-> recipient,
     deadline |-> now + votingPeriodDays * DAY,
     encryptedYesVotes |-> FHE_allowThis(FHE_asEuint64(0)),
     encryptedNoVotes |-> FHE_allowThis(FHE_asEuint64(0)),
     finalized |-> FALSE]

SimpleCreateProposal(caller, title, description, amount, recipient, votingPeriodDays) ==
    /\ Len(sProposals) < MaxProposals
    /\ IF SimpleCreateError(caller, amount, recipient, votingPeriodDays) = "ok"
       THEN /\ sProposals' = Append(sProposals,
                  NewSimpleProposal(caller, title, description, amount,
                                    recipient, votingPeriodDays))
            /\ g_votes' = Append(g_votes, [a \in Address |-> 0])
            /\ g_finalizes' = Append(g_finalizes, 0)
       ELSE UNCHANGED <<sProposals, g_votes, g_finalizes>>
    /\ UNCHANGED <<now, tVars, minDepositToVote, deposits, hasVoted, sBalance, g_net>>

\* vote without the hasVoted check
VoteError_NoVotedCheck(caller, proposalId, proofOk) ==
    IF proposalId >= Len(sProposals) THEN "ProposalNotFound"
    ELSE IF deposits[caller] < minDepositToVote THEN "InsufficientDeposit"
    ELSE IF now > SimpleP(proposalId).deadline THEN "VotingEnded"
    ELSE IF ~proofOk THEN "InvalidProof"
    ELSE "ok"

\* vote without the deposit check
VoteError_NoDepositCheck(caller, proposalId, proofOk) ==
    IF proposalId >= Len(sProposals) THEN "ProposalNotFound"
    ELSE IF <<proposalId, caller>> \in hasVoted THEN "AlreadyVoted"
    ELSE IF now > SimpleP(proposalId).deadline THEN "VotingEnded"
    ELSE IF ~proofOk THEN "InvalidProof"
    ELSE "ok"

\* vote closing at the deadline instead of after it
VoteError_ClosedAtDeadline(caller, proposalId, proofOk) ==
    IF proposalId >= Len(sProposals) THEN "ProposalNotFound"
    ELSE IF deposits[caller] < minDepositToVote THEN "InsufficientDeposit"
    ELSE IF <<proposalId, caller>> \in hasVoted THEN "AlreadyVoted"
    ELSE IF now >= SimpleP(proposalId).deadline THEN "VotingEnded"
    ELSE IF ~proofOk THEN "InvalidProof"
    ELSE "ok"

VoteError(caller, proposalId, proofOk) ==
    IF proposalId >= Len(sProposals) THEN "ProposalNotFound"
    ELSE IF deposits[caller] < minDepositToVote THEN "InsufficientDeposit"
    ELSE IF <<proposalId, caller>> \in hasVoted THEN "AlreadyVoted"
    ELSE IF now > SimpleP(proposalId).deadline THEN "VotingEnded"
    ELSE IF ~proofOk THEN "InvalidProof"
    ELSE "ok"

\* vote counting a yes ballot in both tallies
Tallied_YesCountsTwice(p, ballot) ==
    LET voteValue == FHE_fromExternal(ballot)
        yesIncrement == FHE_select(FHE_eq(voteValue, FHE_asEuint64(1)),
                                   FHE_asEuint64(1), FHE_asEuint64(0))
    IN [p EXCEPT
          !.encryptedYesVotes = FHE_allowThis(FHE_add(p.encryptedYesVotes, yesIncrement)),
          !.encryptedNoVotes = FHE_allowThis(FHE_add(p.encryptedNoVotes, FHE_asEuint64(1)))]

\* vote letting the owner read the tallies of a proposal voted yes on
Tallied_YesOpensToOwner(p, ballot) ==
    LET voteValue == FHE_fromExternal(ballot)
        yesIncrement == FHE_select(FHE_eq(voteValue, FHE_asEuint64(1)),
                                   FHE_asEuint64(1), FHE_asEuint64(0))
        noIncrement == FHE_select(FHE_eq(voteValue, FHE_asEuint64(0)),
                                  FHE_asEuint64(1), FHE_asEuint64(0))
        yes == FHE_allowThis(FHE_add(p.encryptedYesVotes, yesIncrement))
        no == FHE_allowThis(FHE_add(p.encryptedNoVotes, noIncrement))
    IN [p EXCEPT
          !.encryptedYesVotes = IF ballot = 1 THEN FHE_allow(yes, owner) ELSE yes,
          !.encryptedNoVotes = no]

\* vote counting every ballot that is not a yes as a no
Tallied_OtherIsNo(p, ballot) ==
    LET voteValue == FHE_fromExternal(ballot)
        yesIncrement == FHE_select(FHE_eq(voteValue, FHE_asEuint64(1)),
                                   FHE_asEuint64(1), FHE_asEuint64(0))
        noIncrement == FHE_select(FHE_eq(voteValue, FHE_asEuint64(1)),
                                  FHE_asEuint64(0), FHE_asEuint64(1))
    IN [p EXCEPT
          !.encryptedYesVotes = FHE_allowThis(FHE_add(p.encryptedYesVotes, yesIncrement)),
          !.encryptedNoVotes = FHE_allowThis(FHE_add(p.encryptedNoVotes, noIncrement))]

\* the proposal after the two homomorphic tally updates of vote
Tallied(p, ballot) ==
    LET voteValue == FHE_fromExternal(ballot)
        yesIncrement == FHE_select(FHE_eq(voteValue, FHE_asEuint64(1)),
                                   FHE_asEuint64(1), FHE_asEuint64(0))
        noIncrement == FHE_select(FHE_eq(voteValue, FHE_asEuint64(0)),
                                  FHE_asEuint64(1), FHE_asEuint64(0))
    IN [p EXCEPT
          !.encryptedYesVotes = FHE_allowThis(FHE_add(p.encryptedYesVotes, yesIncrement)),
          !.encryptedNoVotes = FHE_allowThis(FHE_add(p.encryptedNoVotes, noIncrement))]

\* emit VoteCast(proposalId, msg.sender)
VoteCast(proposalId, voter) ==
    [name |-> "VoteCast", proposalId |-> proposalId, voter |-> voter]

\* what a vote call shows its caller and the log: the error it reverts
\* with, or the event it emits
VoteOutcome(caller, proposalId, ballot, proofOk) ==
    IF VoteError(caller, proposalId, proofOk) = "ok"
    THEN VoteCast(proposalId, caller)
    ELSE [name |-> VoteError(caller, proposalId, proofOk)]

Vote(caller, proposalId, ballot, proofOk) ==
    /\ IF VoteError(caller, proposalId, proofOk) = "ok"
       THEN /\ sProposals' = [sProposals EXCEPT ![proposalId + 1] = Tallied(@, ballot)]
            /\ hasVoted' = hasVoted \cup {<<proposalId, caller>>}
            /\ g_votes' = [g_votes EXCEPT ![proposalId + 1][caller] = @ + 1]
       ELSE UNCHANGED <<sProposals, hasVoted, g_votes>>
    /\ UNCHANGED <<now, tVars, minDepositToVote, deposits, sBalance, g_net, g_finalizes>>

\* finalizeProposal without the deadline check
FinalizeError_NoDeadline(caller, proposalId) ==
    IF proposalId >= Len(sProposals) THEN "ProposalNotFound"
    ELSE IF SimpleP(proposalId).finalized THEN "AlreadyFinalized"
    ELSE IF caller # owner /\ caller # SimpleP(proposalId).proposer THEN "NotProposer"
    ELSE "ok"

\* finalizeProposal without the finalized check
FinalizeError_NoFinalizedCheck(caller, proposalId) ==
    IF proposalId >= Len(sProposals) THEN "ProposalNotFound"
    ELSE IF caller # owner /\ caller # SimpleP(proposalId).proposer THEN "NotProposer"
    ELSE IF now <= SimpleP(proposalId).deadline THEN "VotingEnded"
    ELSE "ok"

\* finalizeProposal letting only an owner who is also the proposer through
FinalizeError_OwnerAndProposer(caller, proposalId) ==
    IF proposalId >= Len(sProposals) THEN "ProposalNotFound"
    ELSE IF SimpleP(proposalId).finalized THEN "AlreadyFinalized"
    ELSE IF caller # owner \/ caller # SimpleP(proposalId).proposer THEN "NotProposer"
    ELSE IF now <= SimpleP(proposalId).deadline THEN "VotingEnded"
    ELSE "ok"

\* finalizeProposal asking the caller for the minimum deposit
FinalizeError_NeedsDeposit(caller, proposalId) ==
    IF proposalId >= Len(sProposals) THEN "ProposalNotFound"
    ELSE IF deposits[caller] < minDepositToVote THEN "InsufficientDeposit"
    ELSE IF SimpleP(proposalId).finalized THEN "AlreadyFinalized"
    ELSE IF caller # owner /\ caller # SimpleP(proposalId).proposer THEN "NotProposer"
    ELSE IF now <= SimpleP(proposalId).deadline THEN "VotingEnded"
    ELSE "ok"

\* finalizeProposal open from the deadline instant on
FinalizeError_AtDeadline(caller, proposalId) ==
    IF proposalId >= Len(sProposals) THEN "ProposalNotFound"
    ELSE IF SimpleP(proposalId).finalized THEN "AlreadyFinalized"
    ELSE IF caller # owner /\ caller # SimpleP(proposalId).proposer THEN "NotProposer"
    ELSE IF now < SimpleP(proposalId).deadline THEN "VotingEnded"
    ELSE "ok"

FinalizeError(caller, proposalId) ==
    IF proposalId >= Len(sProposals) THEN "ProposalNotFound"
    ELSE IF SimpleP(proposalId).finalized THEN "AlreadyFinalized"
    ELSE IF caller # owner /\ caller # SimpleP(proposalId).proposer THEN "NotProposer"
    ELSE IF now <= SimpleP(proposalId).deadline THEN "VotingEnded"
    ELSE "ok"

\* finalizeProposal granting the recipient access as well
Finalized_RecipientToo(p) ==
    [p EXCEPT
       !.finalized = TRUE,
       !.encryptedYesVotes = FHE_allow(FHE_allow(FHE_allow(@, owner), p.proposer), p.recipient),
       !.encryptedNoVotes = FHE_allow(FHE_allow(FHE_allow(@, owner), p.proposer), p.recipient)]

Finalized(p) ==
    [p EXCEPT
       !.finalized = TRUE,
       !.encryptedYesVotes = FHE_allow(FHE_allow(@, owner), p.proposer),
       !.encryptedNoVotes = FHE_allow(FHE_allow(@, owner), p.proposer)]

FinalizeProposal(caller, proposalId) ==
    /\ IF FinalizeError(caller, proposalId) = "ok"
       THEN /\ sProposals' = [sProposals EXCEPT ![proposalId + 1] = Finalized(@)]
            /\ g_finalizes' = [g_finalizes EXCEPT ![proposalId + 1] = @ + 1]
       ELSE UNCHANGED <<sProposals, g_finalizes>>
    /\ UNCHANGED <<now, tVars, minDepositToVote, deposits, hasVoted, sBalance,
                   g_net, g_votes>>

GetYesVotesError(proposalId) ==
    IF proposalId >= Len(sProposals) THEN "ProposalNotFound"
    ELSE IF ~SimpleP(proposalId).finalized THEN "NotFinalized"
    ELSE "ok"

GetYesVotesReturns(proposalId) == SimpleP(proposalId).encryptedYesVotes

\* a view: no storage is written, whether the call returns or reverts
GetYesVotes(caller, proposalId) ==
    /\ GetYesVotesError(proposalId) \in {"ok", "ProposalNotFound", "NotFinalized"}
    /\ UNCHANGED vars

\* getNoVotes without the finalized check
GetNoVotesError_NoFinalizedCheck(proposalId) ==
    IF proposalId >= Len(sProposals) THEN "ProposalNotFound"
    ELSE "ok"

GetNoVotesError(proposalId) ==
    IF proposalId >= Len(sProposals) THEN "ProposalNotFound"
    ELSE IF ~SimpleP(proposalId).finalized THEN "NotFinalized"
    ELSE "ok"

GetNoVotesReturns(proposalId) == SimpleP(proposalId).encryptedNoVotes

GetNoVotes(caller, proposalId) ==
    /\ GetNoVotesError(proposalId) \in {"ok", "ProposalNotFound", "NotFinalized"}
    /\ UNCHANGED vars

UpdateMinDepositError(caller) ==
    IF caller # owner THEN "Not owner" ELSE "ok"

UpdateMinDeposit(caller, newMinDeposit) ==
    /\ IF UpdateMinDepositError(caller) = "ok"
       THEN minDepositToVote' = newMinDeposit
       ELSE UNCHANGED minDepositToVote
    /\ UNCHANGED <<now, tVars, sProposals, deposits, hasVoted, sBalance,
                   g_net, g_votes, g_finalizes>>

\* the ledger's clock moves to a later instant
AdvanceTime(points) ==
    /\ \E t \in points : t > now /\ now' = t
    /\ UNCHANGED <<sVars, tVars>>

SimpleNext ==
    \/ UNCHANGED frames /\ \E c \in Address, v \in Values : Deposit(c, v)
    \/ UNCHANGED frames /\ \E c \in Address, v \in WithdrawAmounts, r \in BOOLEAN :
            Withdraw(c, v, r)
    \/ UNCHANGED frames /\ \E c \in Address, t \in Titles, d \in Descriptions,
                            x \in CreateArgs :
            SimpleCreateProposal(c, t, d, x[1], x[2], x[3])
    \/ UNCHANGED frames /\ \E c \in Address, i \in ProposalIdInputs,
                            b \in BallotInputs :
            Vote(c, i, b[1], b[2])
    \/ UNCHANGED frames /\ \E c \in Address, i \in ProposalIdInputs :
            FinalizeProposal(c, i)
    \/ UNCHANGED frames /\ \E c \in Address, m \in MinDeposits : UpdateMinDeposit(c, m)
    \/ UNCHANGED frames /\ \E c \in Address, i \in ProposalIdInputs : GetYesVotes(c, i)
    \/ UNCHANGED frames /\ \E c \in Address, i \in ProposalIdInputs : GetNoVotes(c, i)
    \/ AdvanceTime(TimePoints)

\* withdraw paying before it debits
WithdrawBody_TransferFirst == <<"transfer", "debit", "emit">>

\* withdraw's statements after its check, in the order it runs them
WithdrawBody == <<"debit", "transfer", "emit">>

Position(body, statement) ==
    CHOOSE i \in 1..Len(body) : body[i] = statement

DebitsBeforeTransfer ==
    Position(WithdrawBody, "debit") < Position(WithdrawBody, "transfer")

\* withdraw up to the moment the recipient's code receives the funds, which
\* may call into the contract again before the transfer returns
WithdrawEnter(caller, amount) ==
    /\ Len(frames) < MaxDepth
    /\ IF WithdrawError(caller, amount, TRUE) = "ok"
       THEN /\ deposits' = IF DebitsBeforeTransfer
                            THEN Debited(caller, amount) ELSE deposits
            /\ sBalance' = sBalance - amount
            /\ g_net' = [g_net EXCEPT ![caller] = @ - amount]
            /\ frames' = Append(frames,
                   [caller |-> caller, amount |-> amount, deposits |-> deposits,
                    sBalance |-> sBalance, g_net |-> g_net])
       ELSE UNCHANGED <<deposits, sBalance, g_net, frames>>
    /\ UNCHANGED <<now, tVars, minDepositToVote, sProposals, hasVoted,
                   g_votes, g_finalizes>>

\* the storage the innermost waiting withdraw began with, restored when it
\* reverts, whatever the calls nested in it did
RolledBack(f) ==
    /\ deposits' = f.deposits
    /\ sBalance' = f.sBalance
    /\ g_net' = f.g_net

\* the recipient's code returns and the innermost withdraw runs to its end;
\* a debit placed after the transfer is a checked subtraction
TransferReturns ==
    /\ frames # <<>>
    /\ LET f == frames[Len(frames)]
       IN IF DebitsBeforeTransfer
          THEN UNCHANGED <<deposits, sBalance, g_net>>
          ELSE IF deposits[f.caller] < f.amount
               THEN RolledBack(f)
               ELSE /\ deposits' = Debited(f.caller, f.amount)
                    /\ UNCHANGED <<sBalance, g_net>>
    /\ frames' = SubSeq(frames, 1, Len(frames) - 1)
    /\ UNCHANGED <<now, tVars, minDepositToVote, sProposals, hasVoted,
                   g_votes, g_finalizes>>

\* the recipient's code fails, for want of gas or by choice: transfer
\* reverts and the innermost withdraw with it
TransferReverts ==
    /\ frames # <<>>
    /\ RolledBack(frames[Len(frames)])
    /\ frames' = SubSeq(frames, 1, Len(frames) - 1)
    /\ UNCHANGED <<now, tVars, minDepositToVote, sProposals, hasVoted,
                   g_votes, g_finalizes>>

\* deposits and withdrawals by any identities, one inside the transfer of
\* another or after it
ReentrantNext ==
    \/ UNCHANGED frames /\ \E c \in Address, v \in Values : Deposit(c, v)
    \/ \E c \in Address, v \in WithdrawAmounts : WithdrawEnter(c, v)
    \/ TransferReturns
    \/ TransferReverts

SimpleConstructed(_minDepositToVote) ==
    /\ SimpleInit
    /\ minDepositToVote = _minDepositToVote

----------------------------------------------------------------------------
(* TreasuryDAO *)

\* Solidity's `1 hours` and `30 days`
MIN_VOTING_PERIOD == 3600
MAX_VOTING_PERIOD == 2592000

\* the instants the clock visits: deployment, the deadline of a minimum-length
\* vote opened at deployment, and the second after it
TreasuryTimePoints == {0, MIN_VOTING_PERIOD, MIN_VOTING_PERIOD + 1}

\* inputs the callers choose from
Quorums == {0, 2}
\* plaintexts behind the externally encrypted deposits and requests
DepositAmounts == {1, EuintMod - 1}
RequestAmounts == {2}
\* <<plaintext of the encrypted deposit, whether its proof verifies>>
EncInputs == {<<v, TRUE>> : v \in DepositAmounts} \cup {<<1, FALSE>>}
\* <<recipient, plaintext of the encrypted amount, whether its proof verifies,
\* votingPeriodSec>>: the acceptable requests, and requests that break one
\* precondition each
\* plaintexts behind the requests when two deployments are compared
TwoRunsRequestAmounts == RequestAmounts \cup {1}
TreasuryCreateArgs ==
    {<<"b", v, TRUE, MIN_VOTING_PERIOD>> : v \in RequestAmounts} \cup
    {<<NullAddress, 1, TRUE, MIN_VOTING_PERIOD>>,
     <<"b", 1, TRUE, MIN_VOTING_PERIOD - 1>>,
     <<"b", 1, TRUE, MAX_VOTING_PERIOD + 1>>,
     <<"b", 1, FALSE, MIN_VOTING_PERIOD>>}

\* an euint64 storage slot nothing was written to
Uninitialized == Fresh(0)

TreasuryP(id) == tProposals[id + 1]
TreasuryIds == 0..(Len(tProposals) - 1)

TreasuryInit ==
    /\ quorum \in Quorums
    /\ \E initialMembers \in SUBSET Address :
          isMember = [a \in Address |-> a \in initialMembers]
    /\ treasury = FHE_allow(FHE_allowThis(Uninitialized), owner)
    /\ tProposals = <<>>
    /\ voted = {}
    /\ g_executes = <<>>
    /\ g_cancels = <<>>
    /\ g_quorumFailed = {}
    /\ g_relaxed = {}

TreasuryConstructed(initialMembers, minQuorum) ==
    /\ TreasuryInit
    /\ quorum = minQuorum
    /\ isMember = [a \in Address |-> a \in initialMembers]

onlyOwner(caller) == caller = owner
\* onlyMember letting the owner through as well
onlyMember_OrOwner(caller) == isMember[caller] \/ caller = owner

onlyMember(caller) == isMember[caller]

AddMemberError(caller) ==
    IF ~onlyOwner(caller) THEN "NotOwner" ELSE "ok"

\* isMember[m] = true
MemberAdded(m) == [isMember EXCEPT ![m] = TRUE]

AddMember(caller, m) ==
    /\ IF AddMemberError(caller) = "ok"
       THEN isMember' = MemberAdded(m)
       ELSE UNCHANGED isMember
    /\ UNCHANGED <<now, sVars, quorum, treasury, tProposals, voted,
                   g_executes, g_cancels, g_quorumFailed, g_relaxed>>

RemoveMemberError(caller) ==
    IF ~onlyOwner(caller) THEN "NotOwner" ELSE "ok"

\* removeMember flipping the flag
MemberRemoved_Flipped(m) == [isMember EXCEPT ![m] = ~@]

\* isMember[m] = false
MemberRemoved(m) == [isMember EXCEPT ![m] = FALSE]

RemoveMember(caller, m) ==
    /\ IF RemoveMemberError(caller) = "ok"
       THEN isMember' = MemberRemoved(m)
       ELSE UNCHANGED isMember
    /\ UNCHANGED <<now, sVars, quorum, treasury, tProposals, voted,
                   g_executes, g_cancels, g_quorumFailed, g_relaxed>>

DepositEncryptedError(caller, proofOk) ==
    IF ~onlyOwner(caller) THEN "NotOwner"
    ELSE IF ~proofOk THEN "InvalidProof"
    ELSE "ok"

\* depositEncrypted adding the amount twice
Deposited_Twice(encryptedAmt) ==
    LET amt == FHE_fromExternal(encryptedAmt)
    IN FHE_allow(FHE_allowThis(FHE_add(FHE_add(treasury, amt), amt)), owner)

Deposited(encryptedAmt) ==
    LET amt == FHE_fromExternal(encryptedAmt)
    IN FHE_allow(FHE_allowThis(FHE_add(treasury, amt)), owner)

DepositEncrypted(caller, encryptedAmt, proofOk) ==
    /\ IF DepositEncryptedError(caller, proofOk) = "ok"
       THEN treasury' = Deposited(encryptedAmt)
       ELSE UNCHANGED treasury
    /\ UNCHANGED <<now, sVars, quorum, tProposals, voted, isMember,
                   g_executes, g_cancels, g_quorumFailed, g_relaxed>>

\* createProposal refusing the minimum voting period
TreasuryCreateError_StrictMin(caller, recipient, proofOk, votingPeriodSec) ==
    IF ~onlyMember(caller) THEN "NotMember"
    ELSE IF recipient = NullAddress THEN "InvalidRecipient"
    ELSE IF votingPeriodSec <= MIN_VOTING_PERIOD \/ votingPeriodSec > MAX_VOTING_PERIOD
         THEN "InvalidVotingPeriod"
    ELSE IF ~proofOk THEN "InvalidProof"
    ELSE "ok"

TreasuryCreateError(caller, recipient, proofOk, votingPeriodSec) ==
    IF ~onlyMember(caller) THEN "NotMember"
    ELSE IF recipient = NullAddress THEN "InvalidRecipient"
    ELSE IF votingPeriodSec < MIN_VOTING_PERIOD \/ votingPeriodSec > MAX_VOTING_PERIOD
         THEN "InvalidVotingPeriod"
    ELSE IF ~proofOk THEN "InvalidProof"
    ELSE "ok"

NewTreasuryProposal(recipient, encryptedAmt, votingPeriodSec) ==
    LET enc == FHE_fromExternal(encryptedAmt)
    IN [recipient |-> recipient,
        encAmount |-> FHE_allow(FHE_allowThis(enc), recipient),
        yesVotes |-> 0,
        deadline |-> now + votingPeriodSec,
        executed |-> FALSE,
        executedEnc |-> Uninitialized]

TreasuryCreateProposal(caller, recipient, encryptedAmt, proofOk, votingPeriodSec) ==
    /\ Len(tProposals) < MaxProposals
    /\ IF TreasuryCreateError(caller, recipient, proofOk, votingPeriodSec) = "ok"
       THEN /\ tProposals' = Append(tProposals,
                  NewTreasuryProposal(recipient, encryptedAmt, votingPeriodSec))
            /\ g_executes' = Append(g_executes, 0)
            /\ g_cancels' = Append(g_cancels, 0)
       ELSE UNCHANGED <<tProposals, g_executes, g_cancels>>
    /\ UNCHANGED <<now, sVars, quorum, treasury, voted, isMember,
                   g_quorumFailed, g_relaxed>>

\* updateQuorum open to every member
UpdateQuorumError_AnyMember(caller) ==
    IF ~onlyOwner(caller) /\ ~onlyMember(caller) THEN "NotOwner" ELSE "ok"

UpdateQuorumError(caller) ==
    IF ~onlyOwner(caller) THEN "NotOwner" ELSE "ok"

UpdateQuorum(caller, newQuorum) ==
    /\ IF UpdateQuorumError(caller) = "ok"
       THEN /\ quorum' = newQuorum
            /\ g_relaxed' = IF newQuorum < quorum THEN g_quorumFailed ELSE g_relaxed
       ELSE UNCHANGED <<quorum, g_relaxed>>
    /\ UNCHANGED <<now, sVars, treasury, tProposals, voted, isMember,
                   g_executes, g_cancels, g_quorumFailed>>

\* voteYes without the voted check
VoteYesError_NoVotedCheck(caller, id) ==
    IF ~onlyMember(caller) THEN "NotMember"
    ELSE IF id >= Len(tProposals) THEN "Panic"
    ELSE IF now > TreasuryP(id).deadline THEN "PastDeadline"
    ELSE "ok"

VoteYesError(caller, id) ==
    IF ~onlyMember(caller) THEN "NotMember"
    ELSE IF id >= Len(tProposals) THEN "Panic"
    ELSE IF now > TreasuryP(id).deadline THEN "PastDeadline"
    ELSE IF <<id, caller>> \in voted THEN "AlreadyVoted"
    ELSE "ok"

VoteYes(caller, id) ==
    /\ IF VoteYesError(caller, id) = "ok"
       THEN /\ voted' = voted \cup {<<id, caller>>}
            /\ tProposals' = [tProposals EXCEPT ![id + 1].yesVotes = @ + 1]
            /\ g_relaxed' = g_relaxed \cup ({id} \cap g_quorumFailed)
       ELSE UNCHANGED <<voted, tProposals, g_relaxed>>
    /\ UNCHANGED <<now, sVars, quorum, treasury, isMember,
                   g_executes, g_cancels, g_quorumFailed>>

\* execute enforcing the quorum only up to the deadline
ExecuteError_QuorumUntilDeadline(caller, id) ==
    IF ~onlyMember(caller) THEN "NotMember"
    ELSE IF id >= Len(tProposals) THEN "Panic"
    ELSE IF TreasuryP(id).executed THEN "AlreadyExecuted"
    ELSE IF ~(TreasuryP(id).yesVotes >= quorum) /\ now <= TreasuryP(id).deadline
         THEN IF now < TreasuryP(id).deadline THEN "VotingOngoing"
              ELSE "QuorumNotReached"
    ELSE "ok"

\* execute reverting when the request exceeds the treasury
ExecuteError_RevertsOnShortfall(caller, id) ==
    IF ~onlyMember(caller) THEN "NotMember"
    ELSE IF id >= Len(tProposals) THEN "Panic"
    ELSE IF TreasuryP(id).executed THEN "AlreadyExecuted"
    ELSE IF ~(TreasuryP(id).yesVotes >= quorum)
         THEN IF now < TreasuryP(id).deadline THEN "VotingOngoing"
              ELSE "QuorumNotReached"
    ELSE IF TreasuryP(id).encAmount.val > treasury.val THEN "InsufficientTreasury"
    ELSE "ok"

\* execute refusing every call until the deadline has passed
ExecuteError_NotBeforeDeadline(caller, id) ==
    IF ~onlyMember(caller) THEN "NotMember"
    ELSE IF id >= Len(tProposals) THEN "Panic"
    ELSE IF TreasuryP(id).executed THEN "AlreadyExecuted"
    ELSE IF now < TreasuryP(id).deadline THEN "VotingOngoing"
    ELSE IF ~(TreasuryP(id).yesVotes >= quorum) THEN "QuorumNotReached"
    ELSE "ok"

\* execute without the onlyMember modifier
ExecuteError_NoMemberCheck(caller, id) ==
    IF id >= Len(tProposals) THEN "Panic"
    ELSE IF TreasuryP(id).executed THEN "AlreadyExecuted"
    ELSE IF ~(TreasuryP(id).yesVotes >= quorum)
         THEN IF now < TreasuryP(id).deadline THEN "VotingOngoing"
              ELSE "QuorumNotReached"
    ELSE "ok"

ExecuteError(caller, id) ==
    IF ~onlyMember(caller) THEN "NotMember"
    ELSE IF id >= Len(tProposals) THEN "Panic"
    ELSE IF TreasuryP(id).executed THEN "AlreadyExecuted"
    ELSE IF ~(TreasuryP(id).yesVotes >= quorum)
         THEN IF now < TreasuryP(id).deadline THEN "VotingOngoing"
              ELSE "QuorumNotReached"
    ELSE "ok"

\* toSpend with a strict comparison
ToSpend_Strict(p) ==
    FHE_select(Fresh(p.encAmount.val < treasury.val), p.encAmount, FHE_asEuint64(0))

\* toSpend without the clamp
ToSpend_NoClamp(p) == p.encAmount

\* toSpend = encAmount if encAmount <= treasury else 0
ToSpend(p) ==
    FHE_select(FHE_le(p.encAmount, treasury), p.encAmount, FHE_asEuint64(0))

\* execute granting only the contract access to the new treasury handle
Spent_NoOwnerGrant(p) == FHE_allowThis(FHE_sub(treasury, ToSpend(p)))

\* execute granting the recipient access to the new treasury handle as well
Spent_RecipientToo(p) ==
    FHE_allow(FHE_allow(FHE_allowThis(FHE_sub(treasury, ToSpend(p))), owner), p.recipient)

Spent(p) == FHE_allow(FHE_allowThis(FHE_sub(treasury, ToSpend(p))), owner)

Executed(p) ==
    [p EXCEPT
       !.executedEnc = FHE_allow(FHE_allow(FHE_allowThis(ToSpend(p)), p.recipient), owner),
       !.executed = TRUE]

Execute(caller, id) ==
    /\ IF ExecuteError(caller, id) = "ok"
       THEN /\ treasury' = Spent(TreasuryP(id))
            /\ tProposals' = [tProposals EXCEPT ![id + 1] = Executed(@)]
            /\ g_executes' = [g_executes EXCEPT ![id + 1] = @ + 1]
            /\ UNCHANGED <<g_quorumFailed, g_relaxed>>
       ELSE /\ IF ExecuteError(caller, id) = "QuorumNotReached"
               THEN /\ g_quorumFailed' = g_quorumFailed \cup {id}
                    /\ g_relaxed' = g_relaxed \ {id}
               ELSE UNCHANGED <<g_quorumFailed, g_relaxed>>
            /\ UNCHANGED <<treasury, tProposals, g_executes>>
    /\ UNCHANGED <<now, sVars, quorum, voted, isMember, g_cancels>>

\* cancelProposal without the executed check
CancelProposalError_NoExecutedCheck(caller, id) ==
    IF ~onlyOwner(caller) THEN "NotOwner"
    ELSE IF id >= Len(tProposals) THEN "Panic"
    ELSE "ok"

CancelProposalError(caller, id) ==
    IF ~onlyOwner(caller) THEN "NotOwner"
    ELSE IF id >= Len(tProposals) THEN "Panic"
    ELSE IF TreasuryP(id).executed THEN "AlreadyExecuted"
    ELSE "ok"

\* cancelProposal leaving the proposal open
Cancelled_StillOpen(p) ==
    [p EXCEPT
       !.executedEnc = FHE_allow(FHE_allowThis(FHE_asEuint64(0)), owner)]

Cancelled(p) ==
    [p EXCEPT
       !.executed = TRUE,
       !.executedEnc = FHE_allow(FHE_allowThis(FHE_asEuint64(0)), owner)]

CancelProposal(caller, id) ==
    /\ IF CancelProposalError(caller, id) = "ok"
       THEN /\ tProposals' = [tProposals EXCEPT ![id + 1] = Cancelled(@)]
            /\ g_cancels' = [g_cancels EXCEPT ![id + 1] = @ + 1]
       ELSE UNCHANGED <<tProposals, g_cancels>>
    /\ UNCHANGED <<now, sVars, quorum, treasury, voted, isMember,
                   g_executes, g_quorumFailed, g_relaxed>>

\* proposals[id] with id out of range is an array-index panic
GetExecutedAmountError(id) ==
    IF id >= Len(tProposals) THEN "Panic" ELSE "ok"

GetExecutedAmountReturns(id) == TreasuryP(id).executedEnc

\* a view: no storage is written, whether the call returns or reverts
GetExecutedAmount(id) ==
    /\ GetExecutedAmountError(id) \in {"ok", "Panic"}
    /\ UNCHANGED vars

GetRequestedAmountError(id) ==
    IF id >= Len(tProposals) THEN "Panic" ELSE "ok"

GetRequestedAmountReturns(id) == TreasuryP(id).encAmount

GetRequestedAmount(id) ==
    /\ GetRequestedAmountError(id) \in {"ok", "Panic"}
    /\ UNCHANGED vars

TreasuryNext ==
    \/ UNCHANGED pVars /\ \E c \in Address, m \in Address : AddMember(c, m)
    \/ UNCHANGED pVars /\ \E c \in Address, m \in Address : RemoveMember(c, m)
    \/ UNCHANGED pVars /\ \E c \in Address, x \in EncInputs :
            DepositEncrypted(c, x[1], x[2])
    \/ UNCHANGED pVars /\ \E c \in Address, x \in TreasuryCreateArgs :
            TreasuryCreateProposal(c, x[1], x[2], x[3], x[4])
    \/ UNCHANGED pVars /\ \E c \in Address, q \in Quorums : UpdateQuorum(c, q)
    \/ UNCHANGED pVars /\ \E c \in Address, i \in ProposalIdInputs : VoteYes(c, i)
    \/ UNCHANGED pVars /\ \E c \in Address, i \in ProposalIdInputs : Execute(c, i)
    \/ UNCHANGED pVars /\ \E c \in Address, i \in ProposalIdInputs :
            CancelProposal(c, i)
    \/ \E i \in ProposalIdInputs : GetExecutedAmount(i)
    \/ \E i \in ProposalIdInputs : GetRequestedAmount(i)
    \/ AdvanceTime(TreasuryTimePoints)

----------------------------------------------------------------------------
(* Specifications: each contract from its constructor, under any sequence   *)
(* of calls by any identities and any advance of the clock                  *)

\* no second deployment of TreasuryDAO is run
NoRun == [run |-> "none"]
NoCall == [phase |-> "none"]
SingleRun == other = NoRun /\ pending = NoCall

\* SimpleTreasuryDAO deployed at the start of the clock
SimpleDeployed ==
    now = 0 /\ SimpleInit /\ TreasuryConstructed({}, 0) /\ SingleRun

SpecSimple == SimpleDeployed /\ [][SimpleNext]_vars

\* the last instant of the clock's grid
Horizon == CHOOSE t \in TimePoints : \A u \in TimePoints : u <= t

\* the same, with a clock that does not stop short of the horizon and an
\* owner who does not for ever leave a finalizeProposal that would succeed
\* uncalled
SpecSimpleLive ==
    /\ SimpleDeployed
    /\ [][SimpleNext]_vars
    /\ WF_vars(AdvanceTime(TimePoints))
    /\ \A i \in ProposalIdInputs :
          WF_vars(UNCHANGED frames /\ FinalizeProposal(owner, i))

\* createProposal over the whole range of voting periods around its limits,
\* with the calls that move a deposit across the minimum
VotingPeriodDays == 0..31
CreateDays == {0, 1, 2, 29, 30, 31}
CreateAmounts == {0, 1}
CreateRecipients == {NullAddress, "b"}

CreateNext ==
    \/ UNCHANGED frames /\ \E c \in Address, v \in Values : Deposit(c, v)
    \/ UNCHANGED frames /\ \E c \in Address, v \in WithdrawAmounts, r \in BOOLEAN :
            Withdraw(c, v, r)
    \/ UNCHANGED frames /\ \E c \in Address, m \in MinDeposits : UpdateMinDeposit(c, m)
    \/ UNCHANGED frames /\ \E c \in Address, t \in Titles, d \in Descriptions,
                            x \in CreateAmounts, r \in CreateRecipients,
                            n \in CreateDays :
            SimpleCreateProposal(c, t, d, x, r, n)
    \/ AdvanceTime(TimePoints)

SpecCreate == SimpleDeployed /\ [][CreateNext]_vars

\* the minimum deposit plays no part in deposit and withdraw
ReentrantDeployed ==
    now = 0 /\ SimpleConstructed(0) /\ TreasuryConstructed({}, 0) /\ SingleRun

SpecReentrant == ReentrantDeployed /\ [][ReentrantNext]_vars

\* TreasuryDAO deployed at the start of the clock
TreasuryDeployed ==
    now = 0 /\ TreasuryInit /\ SimpleConstructed(0) /\ SingleRun

SpecTreasury == TreasuryDeployed /\ [][TreasuryNext]_vars

\* Both contracts on one ledger, sharing nothing but the clock; the runs
\* explored are those in which calls reach one contract while the other is
\* still as its constructor left it
EitherDeployed ==
    SimpleDeployed \/ TreasuryDeployed

EitherNext ==
    \/ TreasuryConstructed({}, 0) /\ SimpleNext
    \/ SimpleConstructed(0) /\ TreasuryNext

SpecEither == EitherDeployed /\ [][EitherNext]_vars

----------------------------------------------------------------------------
(* Two deployments of TreasuryDAO taking the same calls, by the same callers *)
(* at the same times, with independently chosen plaintexts behind the       *)
(* encrypted deposits and requests.  The handlers act on the storage        *)
(* variables; the deployment that is not acting is parked in `other`.       *)

\* the storage and history of the deployment held in the storage variables
Live ==
    [quorum |-> quorum, treasury |-> treasury, tProposals |-> tProposals,
     voted |-> voted, isMember |-> isMember,
     g_executes |-> g_executes, g_cancels |-> g_cancels,
     g_quorumFailed |-> g_quorumFailed, g_relaxed |-> g_relaxed]

\* a call without the plaintexts behind its encrypted argument: the function,
\* msg.sender, an address argument, a number argument (id, quorum or voting
\* period) and whether the input proof verifies
Call(op, caller, who, n, proofOk) ==
    [op |-> op, caller |-> caller, who |-> who, n |-> n, proofOk |-> proofOk]

Calls ==
    UNION {
      {Call("addMember", c, m, 0, TRUE) : m \in Address} \cup
      {Call("removeMember", c, m, 0, TRUE) : m \in Address} \cup
      {Call("depositEncrypted", c, NullAddress, 0, x[2]) : x \in EncInputs} \cup
      {Call("createProposal", c, x[1], x[4], x[3]) : x \in TreasuryCreateArgs} \cup
      {Call("updateQuorum", c, NullAddress, q, TRUE) : q \in Quorums} \cup
      {Call("voteYes", c, NullAddress, i, TRUE) : i \in ProposalIdInputs} \cup
      {Call("execute", c, NullAddress, i, TRUE) : i \in ProposalIdInputs} \cup
      {Call("cancelProposal", c, NullAddress, i, TRUE) : i \in ProposalIdInputs}
      : c \in Address }

\* the outcome of the call in the current state
ErrorOf(k) ==
    CASE k.op = "addMember" -> AddMemberError(k.caller)
      [] k.op = "removeMember" -> RemoveMemberError(k.caller)
      [] k.op = "depositEncrypted" -> DepositEncryptedError(k.caller, k.proofOk)
      [] k.op = "createProposal" -> TreasuryCreateError(k.caller, k.who, k.proofOk, k.n)
      [] k.op = "updateQuorum" -> UpdateQuorumError(k.caller)
      [] k.op = "voteYes" -> VoteYesError(k.caller, k.n)
      [] k.op = "execute" -> ExecuteError(k.caller, k.n)
      [] k.op = "cancelProposal" -> CancelProposalError(k.caller, k.n)

\* the event the call emits when it succeeds in the current state
EventOf(k) ==
    CASE k.op = "addMember" -> <<"MemberAdded", k.who>>
      [] k.op = "removeMember" -> <<"MemberRemoved", k.who>>
      [] k.op = "depositEncrypted" -> <<"Deposit">>
      [] k.op = "createProposal" -> <<"ProposalCreated", Len(tProposals), k.who>>
      [] k.op = "updateQuorum" -> <<"QuorumUpdated", quorum, k.n>>
      [] k.op = "voteYes" -> <<"Voted", k.n, k.caller>>
      [] k.op = "execute" -> <<"Executed", k.n, TreasuryP(k.n).recipient>>
      [] k.op = "cancelProposal" -> <<"ProposalCancelled", k.n>>

\* what an observer of the call sees: its error, or its event
OutcomeOf(k) ==
    IF ErrorOf(k) = "ok" THEN <<"ok", EventOf(k)>> ELSE <<ErrorOf(k)>>

\* the handler of the call runs, on some plaintext behind its encrypted argument
Apply(k) ==
    \/ k.op = "addMember" /\ AddMember(k.caller, k.who)
    \/ k.op = "removeMember" /\ RemoveMember(k.caller, k.who)
    \/ k.op = "depositEncrypted" /\ \E v \in DepositAmounts :
            DepositEncrypted(k.caller, v, k.proofOk)
    \/ k.op = "createProposal" /\ \E v \in TwoRunsRequestAmounts :
            TreasuryCreateProposal(k.caller, k.who, v, k.proofOk, k.n)
    \/ k.op = "updateQuorum" /\ UpdateQuorum(k.caller, k.n)
    \/ k.op = "voteYes" /\ VoteYes(k.caller, k.n)
    \/ k.op = "execute" /\ Execute(k.caller, k.n)
    \/ k.op = "cancelProposal" /\ CancelProposal(k.caller, k.n)

\* one deployment takes a call that succeeds on it
FirstRun ==
    /\ pending.phase = "none"
    /\ \E k \in Calls :
          /\ ErrorOf(k) = "ok"
          /\ Apply(k)
          /\ pending' = [phase |-> "first", call |-> k, outcome |-> OutcomeOf(k)]
    /\ UNCHANGED other

\* the two deployments change places
Swap ==
    /\ pending.phase \in {"none", "first"}
    /\ quorum' = other.quorum
    /\ treasury' = other.treasury
    /\ tProposals' = other.tProposals
    /\ voted' = other.voted
    /\ isMember' = other.isMember
    /\ g_executes' = other.g_executes
    /\ g_cancels' = other.g_cancels
    /\ g_quorumFailed' = other.g_quorumFailed
    /\ g_relaxed' = other.g_relaxed
    /\ other' = Live
    /\ pending' = IF pending.phase = "first"
                  THEN [pending EXCEPT !.phase = "second"] ELSE pending
    /\ UNCHANGED <<now, sVars>>

\* the other deployment takes the same call
SecondRun ==
    /\ pending.phase = "second"
    /\ Apply(pending.call)
    /\ pending' = NoCall
    /\ UNCHANGED other

\* the clock moves for both deployments, between calls
Tick ==
    /\ pending.phase = "none"
    /\ AdvanceTime(TreasuryTimePoints)

TwoRunsNext ==
    \/ FirstRun
    \/ Swap
    \/ SecondRun
    \/ Tick

\* both deployments constructed with the same arguments
TwoRunsDeployed ==
    now = 0 /\ TreasuryInit /\ SimpleConstructed(0) /\ other = Live /\ pending = NoCall

SpecTwoRuns == TwoRunsDeployed /\ [][TwoRunsNext]_vars

----------------------------------------------------------------------------
(* Properties *)

\* C1 (as stated): at most one vote per proposal and identity succeeds, and
\* once one did, every vote by that identity on that proposal fails with
\* AlreadyVoted.
C1_AlwaysAlreadyVoted ==
    \A id \in SimpleIds, c \in Address :
        /\ g_votes[id + 1][c] <= 1
        /\ g_votes[id + 1][c] >= 1 =>
              \A ok \in BOOLEAN : VoteError(c, id, ok) = "AlreadyVoted"

\* C1 (amended): at most one vote per proposal and identity succeeds; once one
\* did, the vote record stays set and every vote by that identity on that
\* proposal fails: with AlreadyVoted while the identity's deposit is at least
\* minDepositToVote, with InsufficientDeposit otherwise.
C1_OneVotePerIdentity ==
    \A id \in SimpleIds, c \in Address :
        /\ g_votes[id + 1][c] <= 1
        /\ g_votes[id + 1][c] >= 1 =>
              /\ <<id, c>> \in hasVoted
              /\ \A ok \in BOOLEAN :
                    VoteError(c, id, ok) =
                        IF deposits[c] >= minDepositToVote
                        THEN "AlreadyVoted" ELSE "InsufficientDeposit"

\* an identity that voted, still holds the minimum deposit, and is refused
C1_Witness ==
    \E id \in SimpleIds, c \in Address :
        /\ g_votes[id + 1][c] = 1
        /\ deposits[c] >= minDepositToVote
        /\ now <= SimpleP(id).deadline
        /\ VoteError(c, id, TRUE) = "AlreadyVoted"

\* C2: every recorded deposit balance is non-negative and equals the sum of
\* the identity's successful deposits minus the sum of its successful
\* withdrawals.
C2_BalanceIsNetDeposits ==
    \A a \in Address : deposits[a] >= 0 /\ deposits[a] = g_net[a]

\* both identities paid in; one holds a single unit, the other the most an
\* identity can hold
C2_Witness ==
    \E a, b \in Address :
        /\ a # b
        /\ deposits[a] = 1 /\ g_net[a] = 1
        /\ deposits[b] = MaxBalance
        /\ sBalance = MaxBalance + 1

\* C3: execute does not revert whatever the amounts, and a successful execute
\* of a request Y against a treasury X stores Y and leaves X - Y when Y <= X,
\* stores 0 and leaves X when Y > X.
C3_ExecuteClamps ==
    /\ [](\A id \in TreasuryIds, c \in Address :
            (isMember[c] /\ ~TreasuryP(id).executed
                /\ TreasuryP(id).yesVotes >= quorum)
            => ExecuteError(c, id) = "ok")
    /\ [][\A id \in TreasuryIds :
            g_executes'[id + 1] = g_executes[id + 1] + 1 =>
                LET X == treasury.val
                    Y == TreasuryP(id).encAmount.val
                IN IF Y <= X
                   THEN /\ tProposals'[id + 1].executedEnc.val = Y
                        /\ treasury'.val = X - Y
                   ELSE /\ tProposals'[id + 1].executedEnc.val = 0
                        /\ treasury'.val = X]_vars

\* an executed proposal whose request exceeded a non-empty treasury
C3_Witness ==
    \E id \in TreasuryIds :
        /\ g_executes[id + 1] = 1
        /\ TreasuryP(id).executedEnc.val = 0
        /\ treasury.val > 0
        /\ TreasuryP(id).encAmount.val > treasury.val

C5_NoVoteAfterExecuted ==
    /\ [](\A id \in TreasuryIds, c \in Address :
            TreasuryP(id).executed => VoteYesError(c, id) # "ok")
    /\ [][\A id \in TreasuryIds :
            TreasuryP(id).executed =>
                tProposals'[id + 1].yesVotes = TreasuryP(id).yesVotes]_vars

\* C6 (as stated): once executed is true, every execute and cancelProposal
\* call on the proposal fails with AlreadyExecuted.
C6_AlwaysAlreadyExecuted ==
    \A id \in TreasuryIds, c \in Address :
        TreasuryP(id).executed =>
            /\ ExecuteError(c, id) = "AlreadyExecuted"
            /\ CancelProposalError(c, id) = "AlreadyExecuted"

\* C6 (amended): executed never goes back to false; once it is true every
\* execute call by a member and every cancelProposal call by the owner fails
\* with AlreadyExecuted (a non-member's execute fails with NotMember, a
\* non-owner's cancelProposal with NotOwner), so executedEnc is assigned once
\* per executed proposal and the treasury is debited for it at most once.
C6_ExecutedOnce ==
    /\ [](\A id \in TreasuryIds :
            /\ g_executes[id + 1] + g_cancels[id + 1]
                  = (IF TreasuryP(id).executed THEN 1 ELSE 0)
            /\ TreasuryP(id).executed =>
                  \A c \in Address :
                     /\ ExecuteError(c, id) =
                           IF isMember[c] THEN "AlreadyExecuted" ELSE "NotMember"
                     /\ CancelProposalError(c, id) =
                           IF c = owner THEN "AlreadyExecuted" ELSE "NotOwner")
    /\ [][\A id \in TreasuryIds :
            TreasuryP(id).executed =>
                /\ tProposals'[id + 1].executed
                /\ tProposals'[id + 1].executedEnc = TreasuryP(id).executedEnc
                /\ g_executes'[id + 1] = g_executes[id + 1]]_vars

\* an executed proposal that still has its quorum and refuses a member and
\* the owner
C6_Witness ==
    \E id \in TreasuryIds, c \in Address :
        /\ g_executes[id + 1] = 1
        /\ TreasuryP(id).yesVotes >= quorum
        /\ ExecuteError(c, id) = "AlreadyExecuted"
        /\ CancelProposalError(owner, id) = "AlreadyExecuted"

\* C7: finalized never goes back to false, a finalized proposal never changes
\* again, and every vote call on a finalized proposal fails (the clock being
\* past its deadline for good), so votes are only cast in the voting window.
C7_FinalizedIsTerminal ==
    /\ [](\A id \in SimpleIds :
            SimpleP(id).finalized =>
                /\ now > SimpleP(id).deadline
                /\ \A c \in Address, ok \in BOOLEAN : VoteError(c, id, ok) # "ok")
    /\ [][/\ now' >= now
          /\ \A id \in SimpleIds :
                /\ SimpleP(id).finalized =>
                      /\ sProposals'[id + 1] = SimpleP(id)
                      /\ g_votes'[id + 1] = g_votes[id + 1]
                /\ g_votes'[id + 1] # g_votes[id + 1] =>
                      now <= SimpleP(id).deadline]_vars

\* a proposal that collected a vote in its window and was finalized
C7_Witness ==
    \E id \in SimpleIds, c \in Address :
        /\ SimpleP(id).finalized
        /\ g_finalizes[id + 1] = 1
        /\ g_votes[id + 1][c] = 1

\* C8: on an existing proposal, a vote (with a verifying proof) by an
\* identity that holds the minimum deposit and has not voted succeeds when
\* time <= deadline, the deadline itself included, and fails with VotingEnded
\* when time > deadline.
C8_VoteWindow ==
    \A id \in SimpleIds, c \in Address :
        (deposits[c] >= minDepositToVote /\ <<id, c>> \notin hasVoted) =>
            IF now > SimpleP(id).deadline
            THEN \A ok \in BOOLEAN : VoteError(c, id, ok) = "VotingEnded"
            ELSE VoteError(c, id, TRUE) = "ok"

\* exactly at the deadline, one identity has voted and another still can
C8_Witness ==
    \E id \in SimpleIds, c, d \in Address :
        /\ now = SimpleP(id).deadline
        /\ g_votes[id + 1][d] = 1
        /\ deposits[c] >= minDepositToVote /\ <<id, c>> \notin hasVoted
        /\ VoteError(c, id, TRUE) = "ok"

\* C9: finalizeProposal succeeds at most once per proposal; after it did,
\* every finalizeProposal call on the proposal fails with AlreadyFinalized.
C9_FinalizedOnce ==
    \A id \in SimpleIds :
        /\ g_finalizes[id + 1] = (IF SimpleP(id).finalized THEN 1 ELSE 0)
        /\ g_finalizes[id + 1] >= 1 =>
              \A c \in Address : FinalizeError(c, id) = "AlreadyFinalized"

\* a finalized proposal refusing its owner and its proposer
C9_Witness ==
    \E id \in SimpleIds :
        /\ g_finalizes[id + 1] = 1
        /\ SimpleP(id).proposer # owner
        /\ FinalizeError(owner, id) = "AlreadyFinalized"
        /\ FinalizeError(SimpleP(id).proposer, id) = "AlreadyFinalized"

\* C10: on a proposal that is not finalized, finalizeProposal succeeds exactly
\* for the owner or the proposer at time > deadline; any other caller fails
\* with NotProposer and the owner or proposer at time <= deadline fails with
\* VotingEnded; until a call succeeds the proposal stays not finalized and
\* nobody but the contract is on the access list of its tallies.
C10_FinalizePreconditions ==
    /\ [](\A id \in SimpleIds :
            ~SimpleP(id).finalized =>
                /\ SimpleP(id).encryptedYesVotes.acl = {This}
                /\ SimpleP(id).encryptedNoVotes.acl = {This}
                /\ \A c \in Address :
                      FinalizeError(c, id) =
                         IF c # owner /\ c # SimpleP(id).proposer THEN "NotProposer"
                         ELSE IF now <= SimpleP(id).deadline THEN "VotingEnded"
                         ELSE "ok")
    /\ [][\A id \in SimpleIds :
            (~SimpleP(id).finalized /\ sProposals'[id + 1].finalized) =>
                /\ now > SimpleP(id).deadline
                /\ g_finalizes'[id + 1] = g_finalizes[id + 1] + 1]_vars

\* past the deadline of an open proposal of the owner's, where the other
\* identity is refused and the owner is not
C10_Witness ==
    \E id \in SimpleIds, c \in Address :
        /\ ~SimpleP(id).finalized
        /\ now > SimpleP(id).deadline
        /\ SimpleP(id).proposer = owner
        /\ FinalizeError(c, id) = "NotProposer"
        /\ FinalizeError(owner, id) = "ok"

\* C11: nobody but the contract is on the access list of the current yes- or
\* no-tally of a proposal that is not finalized; access is granted only by a
\* successful finalizeProposal, and then exactly to the owner and the proposer,
\* on both tallies.
C11_TalliesSealedUntilFinalized ==
    \A id \in SimpleIds :
        LET p == SimpleP(id)
            granted == g_finalizes[id + 1] >= 1
            readers == IF granted THEN {This, owner, p.proposer} ELSE {This}
        IN /\ granted <=> p.finalized
           /\ p.encryptedYesVotes.acl = readers
           /\ p.encryptedNoVotes.acl = readers

\* a finalized proposal of somebody other than the owner that collected a
\* vote: the owner and the proposer, and only they, read both tallies
C11_Witness ==
    \E id \in SimpleIds, c \in Address :
        /\ g_finalizes[id + 1] = 1
        /\ g_votes[id + 1][c] = 1
        /\ SimpleP(id).proposer # owner
        /\ SimpleP(id).recipient \notin {owner, SimpleP(id).proposer}
        /\ SimpleP(id).encryptedYesVotes.acl = {This, owner, SimpleP(id).proposer}
        /\ SimpleP(id).encryptedNoVotes.acl = {This, owner, SimpleP(id).proposer}

\* the identities whose vote record for the proposal is true
Voters(id) == {c \in Address : <<id, c>> \in hasVoted}

\* C12: for every proposal, the plaintext of encryptedYesVotes plus the
\* plaintext of encryptedNoVotes is at most the number of distinct identities
\* whose vote record for the proposal is true.
C12_TalliesBoundedByVoters ==
    \A id \in SimpleIds :
        SimpleP(id).encryptedYesVotes.val + SimpleP(id).encryptedNoVotes.val
            <= Cardinality(Voters(id))

\* two identities voted, one yes and one no
C12_Witness ==
    \E id \in SimpleIds :
        /\ Cardinality(Voters(id)) = 2
        /\ SimpleP(id).encryptedYesVotes.val = 1
        /\ SimpleP(id).encryptedNoVotes.val = 1

\* C14: for a member calling execute on a proposal that is not executed and
\* has yesVotes < quorum, the call fails with VotingOngoing whenever voteYes
\* still passes its deadline check (time <= deadline), and with
\* QuorumNotReached only when time > deadline.
C14_VotingOngoingWhileVotesPass ==
    \A id \in TreasuryIds, c \in Address :
        (isMember[c] /\ ~TreasuryP(id).executed /\ TreasuryP(id).yesVotes < quorum)
        => ExecuteError(c, id) =
              IF now <= TreasuryP(id).deadline THEN "VotingOngoing"
              ELSE "QuorumNotReached"

\* C16: immediately after a successful execute, the proposal's recipient and
\* the owner are both on the access list of the updated treasury balance and
\* of the proposal's executedEnc.
C16_RecipientAndOwnerReadBoth ==
    [][\A id \in TreasuryIds :
            g_executes'[id + 1] = g_executes[id + 1] + 1 =>
                /\ {TreasuryP(id).recipient, owner} \subseteq treasury'.acl
                /\ {TreasuryP(id).recipient, owner}
                      \subseteq tProposals'[id + 1].executedEnc.acl]_vars

\* C17: in every state from construction on, the owner is on the access list
\* of the current treasury handle: depositEncrypted and execute, which
\* replace the handle, grant the owner access to the new one.
C17_OwnerReadsTreasury ==
    owner \in treasury.acl

\* the treasury handle was replaced by a deposit and then by an execute that
\* spent part of it
C17_Witness ==
    \E id \in TreasuryIds :
        /\ g_executes[id + 1] = 1
        /\ TreasuryP(id).executedEnc.val > 0
        /\ treasury.val > 0
        /\ owner \in treasury.acl

YesVoters(id) == {c \in Address : <<id, c>> \in voted}

\* C19: voteYes on an existing proposal succeeds exactly for a current member,
\* at time <= deadline, whose voted flag is not set; a failure with NotMember,
\* PastDeadline or AlreadyVoted means the respective condition is broken, and
\* there is no other failure; yesVotes equals the number of distinct
\* identities whose voted flag for the proposal is true.
C19_VoteYesCountsVoters ==
    \A id \in TreasuryIds :
        /\ TreasuryP(id).yesVotes = Cardinality(YesVoters(id))
        /\ \A c \in Address :
              LET e == VoteYesError(c, id)
              IN /\ e = "ok" <=> (/\ isMember[c]
                                  /\ now <= TreasuryP(id).deadline
                                  /\ <<id, c>> \notin voted)
                 /\ e \in {"ok", "NotMember", "PastDeadline", "AlreadyVoted"}
                 /\ e = "NotMember" => ~isMember[c]
                 /\ e = "PastDeadline" => now > TreasuryP(id).deadline
                 /\ e = "AlreadyVoted" => <<id, c>> \in voted

\* both identities voted, one of them has since been removed from the
\* members and the other is refused a second vote
C19_Witness ==
    \E id \in TreasuryIds, c, d \in Address :
        /\ TreasuryP(id).yesVotes = 2
        /\ YesVoters(id) = {c, d}
        /\ ~isMember[c]
        /\ now <= TreasuryP(id).deadline
        /\ VoteYesError(d, id) = "AlreadyVoted"

\* the voting periods a caller may ask for, around both limits
VotingPeriods ==
    {MIN_VOTING_PERIOD - 1, MIN_VOTING_PERIOD, MAX_VOTING_PERIOD, MAX_VOTING_PERIOD + 1}

\* C20: createProposal (with a verifying proof) succeeds exactly for a current
\* member with a non-null recipient and a voting period within
\* [MIN_VOTING_PERIOD, MAX_VOTING_PERIOD] = [1 hour, 30 days], both limits
\* included; a failure with NotMember, InvalidRecipient or
\* InvalidVotingPeriod means the respective condition is broken; a success
\* appends, at the new last index, a proposal with yesVotes = 0, executed =
\* false, deadline = now + period, whose requested amount is readable by the
\* contract and the recipient, and leaves the earlier proposals as they were.
C20_CreateProposalPreconditions ==
    /\ MIN_VOTING_PERIOD = 60 * 60 /\ MAX_VOTING_PERIOD = 30 * 24 * 60 * 60
    /\ [](\A c \in Address, r \in {"b", NullAddress}, t \in VotingPeriods :
            LET e == TreasuryCreateError(c, r, TRUE, t)
                inRange == MIN_VOTING_PERIOD <= t /\ t <= MAX_VOTING_PERIOD
            IN /\ e = "ok" <=> (isMember[c] /\ r # NullAddress /\ inRange)
               /\ e \in {"ok", "NotMember", "InvalidRecipient", "InvalidVotingPeriod"}
               /\ e = "NotMember" => ~isMember[c]
               /\ e = "InvalidRecipient" => r = NullAddress
               /\ e = "InvalidVotingPeriod" => ~inRange)
    /\ [][Len(tProposals') # Len(tProposals) =>
            /\ Len(tProposals') = Len(tProposals) + 1
            /\ SubSeq(tProposals', 1, Len(tProposals)) = tProposals
            /\ LET p == tProposals'[Len(tProposals')]
               IN /\ p.yesVotes = 0
                  /\ ~p.executed
                  /\ p.recipient # NullAddress
                  /\ p.deadline - now >= MIN_VOTING_PERIOD
                  /\ p.deadline - now <= MAX_VOTING_PERIOD
                  /\ \E x \in TreasuryCreateArgs :
                        /\ p.deadline = now + x[4]
                        /\ p.recipient = x[1]
                        /\ p.encAmount.val = x[2]
                  /\ p.encAmount.acl = {This, p.recipient}
                  /\ \E c \in Address : isMember[c]]_vars

\* a proposal just created by a member with the minimum voting period
C20_Witness ==
    \E id \in TreasuryIds :
        /\ id = Len(tProposals) - 1
        /\ TreasuryP(id).yesVotes = 0
        /\ ~TreasuryP(id).executed
        /\ TreasuryP(id).deadline = now + MIN_VOTING_PERIOD
        /\ TreasuryP(id).recipient \notin Address
        /\ TreasuryP(id).encAmount.acl = {This, TreasuryP(id).recipient}

\* the storage of both contracts, ciphertext access lists included
storage ==
    <<minDepositToVote, sProposals, deposits, hasVoted, sBalance,
      quorum, treasury, tProposals, voted, isMember>>

\* a failing call of a public state-changing operation, of either contract
\* (a named error, a failed proof import, a failed transfer, an index out of
\* range), is this step
FailedCall ==
    \E c \in Address :
       \/ \E v \in Values : DepositError(v) # "ok" /\ Deposit(c, v)
       \/ \E v \in WithdrawAmounts, r \in BOOLEAN :
             WithdrawError(c, v, r) # "ok" /\ Withdraw(c, v, r)
       \/ \E t \in Titles, d \in Descriptions, x \in CreateArgs :
             /\ SimpleCreateError(c, x[1], x[2], x[3]) # "ok"
             /\ SimpleCreateProposal(c, t, d, x[1], x[2], x[3])
       \/ \E i \in ProposalIdInputs, b \in BallotInputs :
             VoteError(c, i, b[2]) # "ok" /\ Vote(c, i, b[1], b[2])
       \/ \E i \in ProposalIdInputs :
             FinalizeError(c, i) # "ok" /\ FinalizeProposal(c, i)
       \/ \E m \in MinDeposits :
             UpdateMinDepositError(c) # "ok" /\ UpdateMinDeposit(c, m)
       \/ \E m \in Address :
             \/ AddMemberError(c) # "ok" /\ AddMember(c, m)
             \/ RemoveMemberError(c) # "ok" /\ RemoveMember(c, m)
       \/ \E x \in EncInputs :
             DepositEncryptedError(c, x[2]) # "ok" /\ DepositEncrypted(c, x[1], x[2])
       \/ \E x \in TreasuryCreateArgs :
             /\ TreasuryCreateError(c, x[1], x[3], x[4]) # "ok"
             /\ TreasuryCreateProposal(c, x[1], x[2], x[3], x[4])
       \/ \E q \in Quorums : UpdateQuorumError(c) # "ok" /\ UpdateQuorum(c, q)
       \/ \E i \in ProposalIdInputs :
             \/ VoteYesError(c, i) # "ok" /\ VoteYes(c, i)
             \/ ExecuteError(c, i) # "ok" /\ Execute(c, i)
             \/ CancelProposalError(c, i) # "ok" /\ CancelProposal(c, i)

\* a successful call is this step
SucceededCall ==
    \E c \in Address :
       \/ \E v \in Values : DepositError(v) = "ok" /\ Deposit(c, v)
       \/ \E v \in WithdrawAmounts :
             WithdrawError(c, v, TRUE) = "ok" /\ Withdraw(c, v, TRUE)
       \/ \E t \in Titles, d \in Descriptions, x \in CreateArgs :
             /\ SimpleCreateError(c, x[1], x[2], x[3]) = "ok"
             /\ SimpleCreateProposal(c, t, d, x[1], x[2], x[3])
       \/ \E i \in ProposalIdInputs, b \in BallotInputs :
             VoteError(c, i, b[2]) = "ok" /\ Vote(c, i, b[1], b[2])
       \/ \E i \in ProposalIdInputs :
             FinalizeError(c, i) = "ok" /\ FinalizeProposal(c, i)
       \/ \E m \in MinDeposits :
             UpdateMinDepositError(c) = "ok" /\ UpdateMinDeposit(c, m)
       \/ \E m \in Address :
             \/ AddMemberError(c) = "ok" /\ AddMember(c, m)
             \/ RemoveMemberError(c) = "ok" /\ RemoveMember(c, m)
       \/ \E x \in EncInputs :
             DepositEncryptedError(c, x[2]) = "ok" /\ DepositEncrypted(c, x[1], x[2])
       \/ \E x \in TreasuryCreateArgs :
             /\ TreasuryCreateError(c, x[1], x[3], x[4]) = "ok"
             /\ TreasuryCreateProposal(c, x[1], x[2], x[3], x[4])
       \/ \E q \in Quorums : UpdateQuorumError(c) = "ok" /\ UpdateQuorum(c, q)
       \/ \E i \in ProposalIdInputs :
             \/ VoteYesError(c, i) = "ok" /\ VoteYes(c, i)
             \/ ExecuteError(c, i) = "ok" /\ Execute(c, i)
             \/ CancelProposalError(c, i) = "ok" /\ CancelProposal(c, i)

\* C13: whenever a call of a public state-changing operation of either
\* contract fails, deposits, proposals, tallies, vote records, membership,
\* quorum, treasury and ciphertext access lists are exactly what they were
\* before the call: a step in which any of them changes is not a failing
\* call, and is a successful one.
C13_FailureIsAtomic ==
    [][storage' # storage => (~FailedCall /\ SucceededCall)]_vars

\* a member's execute failed with QuorumNotReached on a proposal that asks for
\* no more than the treasury holds: the proposal is still not executed, its
\* executedEnc is unwritten and the treasury is undiminished
C13_Witness ==
    \E id \in g_quorumFailed :
        /\ ~TreasuryP(id).executed
        /\ g_executes[id + 1] = 0 /\ g_cancels[id + 1] = 0
        /\ TreasuryP(id).executedEnc = Uninitialized
        /\ TreasuryP(id).encAmount.val <= treasury.val

\* what of a deployment's storage is in the clear: everything but the
\* plaintexts behind its ciphertext handles
Plain(S) ==
    [quorum |-> S.quorum, isMember |-> S.isMember, voted |-> S.voted,
     treasuryReaders |-> S.treasury.acl,
     proposals |-> [i \in 1..Len(S.tProposals) |->
        [recipient |-> S.tProposals[i].recipient,
         yesVotes |-> S.tProposals[i].yesVotes,
         deadline |-> S.tProposals[i].deadline,
         executed |-> S.tProposals[i].executed,
         encAmountReaders |-> S.tProposals[i].encAmount.acl,
         executedEncReaders |-> S.tProposals[i].executedEnc.acl]]]

\* C15: two runs of the same calls by the same callers at the same times,
\* differing only in the plaintexts behind the encrypted deposits and
\* requests: between calls the two hold the same plaintext state (yesVotes,
\* executed, deadlines, membership, quorum, vote flags, access lists); every
\* call, successful or not, has the same outcome, error and event in both;
\* and a call that succeeded in one run, execute included, succeeds with the
\* same event in the other.
C15_SameOutcomes ==
    /\ [](pending.phase = "none" => Plain(Live) = Plain(other))
    /\ [][(pending.phase = "none" /\ Swap)
            => \A k \in Calls : OutcomeOf(k)' = OutcomeOf(k)]_vars
    /\ [][pending.phase = "second"
            => OutcomeOf(pending.call) = pending.outcome]_vars

\* both runs executed the proposal: in one the request exceeded the treasury
\* and nothing was spent, in the other the request was paid
C15_Witness ==
    \E id \in TreasuryIds :
        /\ pending.phase = "none"
        /\ g_executes[id + 1] = 1 /\ other.g_executes[id + 1] = 1
        /\ TreasuryP(id).executedEnc.val = 0
        /\ TreasuryP(id).encAmount.val > treasury.val
        /\ other.tProposals[id + 1].executedEnc.val > 0
        /\ other.tProposals[id + 1].encAmount.val # TreasuryP(id).encAmount.val

\* C21: the membership set changes only in a step that is addMember or
\* removeMember called by the owner; any other caller of either fails with
\* NotOwner; and both are idempotent: applied again to the state they
\* produced, they produce that state again.
C21_MembershipByOwnerOnly ==
    /\ [](\A c \in Address :
            /\ AddMemberError(c) = (IF c = owner THEN "ok" ELSE "NotOwner")
            /\ RemoveMemberError(c) = (IF c = owner THEN "ok" ELSE "NotOwner"))
    /\ [][isMember' # isMember =>
            \E m \in Address : AddMember(owner, m) \/ RemoveMember(owner, m)]_vars
    /\ [][\A m \in Address :
            /\ AddMember(owner, m) => MemberAdded(m)' = isMember'
            /\ RemoveMember(owner, m) => MemberRemoved(m)' = isMember']_vars

\* an identity that voted as a member and has since been removed, which the
\* owner could add back and which cannot add itself
C21_Witness ==
    \E id \in TreasuryIds, m \in Address :
        /\ <<id, m>> \in voted
        /\ ~isMember[m]
        /\ m # owner
        /\ AddMemberError(m) = "NotOwner"
        /\ MemberAdded(m) # isMember

\* C22 (as stated): after a cancelProposal, every later execute on the
\* proposal fails with AlreadyExecuted.
C22_CancelledRefusesEveryone ==
    \A id \in TreasuryIds, c \in Address :
        g_cancels[id + 1] >= 1 => ExecuteError(c, id) = "AlreadyExecuted"

\* C22 (amended): cancelProposal on an existing proposal succeeds exactly for
\* the owner on a proposal that is not executed, a failure with NotOwner or
\* AlreadyExecuted meaning the respective condition is broken; a success
\* sets executed and sets executedEnc to an encryption of zero readable by
\* the contract and the owner, leaving the treasury and yesVotes as they
\* were; afterwards every execute on the proposal by a member fails with
\* AlreadyExecuted, quorum met or not, and by anybody else with NotMember.
C22_CancelIsTerminal ==
    /\ [](\A id \in TreasuryIds, c \in Address :
            LET e == CancelProposalError(c, id)
            IN /\ e = "ok" <=> (c = owner /\ ~TreasuryP(id).executed)
               /\ e \in {"ok", "NotOwner", "AlreadyExecuted"}
               /\ e = "NotOwner" => c # owner
               /\ e = "AlreadyExecuted" => TreasuryP(id).executed
               /\ g_cancels[id + 1] >= 1 =>
                     ExecuteError(c, id) =
                        IF isMember[c] THEN "AlreadyExecuted" ELSE "NotMember")
    /\ [][\A id \in TreasuryIds :
            g_cancels'[id + 1] = g_cancels[id + 1] + 1 =>
                /\ ~TreasuryP(id).executed
                /\ tProposals'[id + 1].executed
                /\ tProposals'[id + 1].executedEnc.val = 0
                /\ tProposals'[id + 1].executedEnc.acl = {This, owner}
                /\ tProposals'[id + 1].yesVotes = TreasuryP(id).yesVotes
                /\ treasury' = treasury]_vars

\* a cancelled proposal that has its quorum of votes and asks for no more
\* than the treasury holds, refusing a member
C22_Witness ==
    \E id \in TreasuryIds, c \in Address :
        /\ g_cancels[id + 1] = 1
        /\ TreasuryP(id).yesVotes >= quorum /\ TreasuryP(id).yesVotes > 0
        /\ TreasuryP(id).encAmount.val <= treasury.val
        /\ isMember[c]
        /\ ExecuteError(c, id) = "AlreadyExecuted"

\* C23: the treasury ciphertext changes only in a step that is a successful
\* depositEncrypted by the owner, which adds the deposited amount, or a
\* successful execute, which subtracts the clamped spend; every other
\* operation leaves value and handle as they were; depositEncrypted by
\* anybody but the owner fails with NotOwner.
C23_TreasuryFrame ==
    /\ [](\A c \in Address, ok \in BOOLEAN :
            c # owner => DepositEncryptedError(c, ok) = "NotOwner")
    /\ [][treasury' # treasury =>
            \/ \E v \in DepositAmounts :
                  /\ DepositEncrypted(owner, v, TRUE)
                  /\ treasury'.val = (treasury.val + v) % EuintMod
            \/ \E id \in TreasuryIds :
                  /\ g_executes'[id + 1] = g_executes[id + 1] + 1
                  /\ treasury'.val = treasury.val - ToSpend(TreasuryP(id)).val
                  /\ ToSpend(TreasuryP(id)).val
                        \in {0, TreasuryP(id).encAmount.val}
                  /\ ToSpend(TreasuryP(id)).val <= treasury.val]_vars

\* the owner's deposits were partly spent by an execute, and a deposit by
\* anybody else is refused
C23_Witness ==
    \E id \in TreasuryIds, c \in Address :
        /\ g_executes[id + 1] = 1
        /\ TreasuryP(id).executedEnc.val = TreasuryP(id).encAmount.val
        /\ treasury.val = 1
        /\ DepositEncryptedError(c, TRUE) = "NotOwner"

C27_TallyGetters ==
    \A id \in ProposalIdInputs :
        /\ GetYesVotesError(id) = GetNoVotesError(id)
        /\ id >= Len(sProposals) <=> GetNoVotesError(id) = "ProposalNotFound"
        /\ (id < Len(sProposals) /\ ~SimpleP(id).finalized) <=>
               GetNoVotesError(id) = "NotFinalized"
        /\ GetNoVotesError(id) = "ok" =>
               /\ SimpleP(id).finalized
               /\ GetYesVotesReturns(id) = SimpleP(id).encryptedYesVotes
               /\ GetNoVotesReturns(id) = SimpleP(id).encryptedNoVotes
               /\ g_finalizes[id + 1] = 1

\* a stored proposal with a vote against it that is still sealed after its
\* deadline
C27_WitnessSealed ==
    \E id \in SimpleIds :
        /\ SimpleP(id).encryptedNoVotes.val = 1
        /\ now > SimpleP(id).deadline
        /\ GetNoVotesError(id) = "NotFinalized"

\* a finalized proposal whose getters return the handles, next to an id
\* that is not stored
C27_Witness ==
    \E id \in SimpleIds :
        /\ GetYesVotesError(id) = "ok"
        /\ GetNoVotesError(id) = "ok"
        /\ GetYesVotesReturns(id).val = 1
        /\ GetNoVotesReturns(id).val = 1
        /\ GetYesVotesError(id + 1) = "ProposalNotFound"

\* C28 (as stated): any createProposal or vote by a caller whose deposit is
\* below minDepositToVote fails with InsufficientDeposit.
C28_BelowMinimumIsInsufficientDeposit ==
    \A c \in Address, i \in ProposalIdInputs, ok \in BOOLEAN :
        deposits[c] < minDepositToVote =>
            /\ \A x \in CreateArgs :
                  SimpleCreateError(c, x[1], x[2], x[3]) = "InsufficientDeposit"
            /\ VoteError(c, i, ok) = "InsufficientDeposit"

\* C28 (amended): a createProposal or vote that succeeds is made by a caller
\* whose recorded deposit is at least minDepositToVote at the call; a caller
\* below the minimum always fails: with InsufficientDeposit in createProposal
\* and in vote on a stored proposal, with ProposalNotFound in vote on an id
\* at or beyond the proposal count.
C28_OnlyDepositorsCreateAndVote ==
    \A c \in Address, i \in ProposalIdInputs, ok \in BOOLEAN :
        /\ \A x \in CreateArgs :
              /\ SimpleCreateError(c, x[1], x[2], x[3]) = "ok" =>
                    deposits[c] >= minDepositToVote
              /\ deposits[c] < minDepositToVote =>
                    SimpleCreateError(c, x[1], x[2], x[3]) = "InsufficientDeposit"
        /\ VoteError(c, i, ok) = "ok" => deposits[c] >= minDepositToVote
        /\ deposits[c] < minDepositToVote =>
              VoteError(c, i, ok) =
                 IF i < Len(sProposals) THEN "InsufficientDeposit"
                 ELSE "ProposalNotFound"

\* a proposer who withdrew after creating: their vote on their own proposal
\* and on an id not stored are both refused, for different reasons
C28_Witness ==
    \E id \in SimpleIds :
        LET c == SimpleP(id).proposer
        IN /\ minDepositToVote = 1
           /\ deposits[c] = 0
           /\ g_net[c] = 0
           /\ now <= SimpleP(id).deadline
           /\ VoteError(c, id, TRUE) = "InsufficientDeposit"
           /\ VoteError(c, id + 1, TRUE) = "ProposalNotFound"

\* the plaintexts callers can put behind an encrypted ballot
Ballots == {b[1] : b \in BallotInputs}

\* what of the Simple variant's storage is in the clear: everything but the
\* plaintexts behind the tally handles
SimplePlain(ps, voted_, deps, min) ==
    [minDepositToVote |-> min, deposits |-> deps, hasVoted |-> voted_,
     proposals |-> [i \in 1..Len(ps) |->
        [id |-> ps[i].id, title |-> ps[i].title,
         description |-> ps[i].description, proposer |-> ps[i].proposer,
         amount |-> ps[i].amount, recipient |-> ps[i].recipient,
         deadline |-> ps[i].deadline, finalized |-> ps[i].finalized,
         yesReaders |-> ps[i].encryptedYesVotes.acl,
         noReaders |-> ps[i].encryptedNoVotes.acl]]]

\* C29: take a vote call and the call that differs from it only in the
\* plaintext behind the encrypted ballot. Both have the same outcome, the
\* same error or the same VoteCast event; and when the first succeeds, the
\* state it leaves and the state the second would have left agree on
\* everything in the clear (vote record, deposits, minimum, the proposals'
\* plaintext fields and the readers of their tallies): the two states can
\* differ only in the plaintexts of the tallies.
C29_BallotStaysSecret ==
    /\ [](\A c \in Address, i \in ProposalIdInputs, ok \in BOOLEAN :
            Cardinality({VoteOutcome(c, i, b, ok) : b \in Ballots}) = 1)
    /\ [][hasVoted' # hasVoted =>
            \A c \in Address, i \in SimpleIds :
              <<i, c>> \in hasVoted' \ hasVoted =>
                \A b1 \in Ballots :
                  Vote(c, i, b1, TRUE) =>
                    /\ VoteError(c, i, TRUE) = "ok"
                    /\ sBalance' = sBalance
                    /\ \A b2 \in Ballots :
                         SimplePlain(sProposals', hasVoted', deposits',
                                     minDepositToVote')
                           = SimplePlain([sProposals EXCEPT
                                             ![i + 1] = Tallied(@, b2)],
                                         hasVoted \cup {<<i, c>>}, deposits,
                                         minDepositToVote)]_vars

\* two identities voted with ballots whose plaintexts differ, one of them
\* neither 0 nor 1: the tallies differ by it and nothing else records it
C29_Witness ==
    \E id \in SimpleIds :
        /\ Cardinality(Voters(id)) = 2
        /\ SimpleP(id).encryptedYesVotes.val = 0
        /\ SimpleP(id).encryptedNoVotes.val = 1
        /\ ~SimpleP(id).finalized
        /\ VoteOutcome(owner, id, 1, TRUE) = [name |-> "AlreadyVoted"]

\* the errors the two contracts declare
NamedErrors ==
    {"InvalidAmount", "InvalidRecipient", "InvalidDeadline", "InvalidVotingPeriod",
     "InsufficientDeposit", "ProposalNotFound", "AlreadyVoted", "VotingEnded",
     "PastDeadline", "NotProposer", "NotOwner", "NotMember", "AlreadyFinalized",
     "AlreadyExecuted", "NotFinalized", "QuorumNotReached", "VotingOngoing"}

\* the outcomes of every public call any identity can make in this state,
\* with input proofs that verify and transfers that are accepted
SimpleCallErrors ==
    UNION {{DepositError(v) : v \in Values},
           {WithdrawError(c, v, TRUE) : c \in Address, v \in WithdrawAmounts},
           {SimpleCreateError(c, x[1], x[2], x[3]) : c \in Address, x \in CreateArgs},
           {VoteError(c, i, TRUE) : c \in Address, i \in ProposalIdInputs},
           {FinalizeError(c, i) : c \in Address, i \in ProposalIdInputs},
           {GetYesVotesError(i) : i \in ProposalIdInputs},
           {GetNoVotesError(i) : i \in ProposalIdInputs},
           {UpdateMinDepositError(c) : c \in Address}}

TreasuryCallErrors ==
    UNION {{AddMemberError(c) : c \in Address},
           {RemoveMemberError(c) : c \in Address},
           {DepositEncryptedError(c, TRUE) : c \in Address},
           {TreasuryCreateError(c, x[1], TRUE, x[4]) :
                c \in Address, x \in TreasuryCreateArgs},
           {UpdateQuorumError(c) : c \in Address},
           {VoteYesError(c, i) : c \in Address, i \in ProposalIdInputs},
           {ExecuteError(c, i) : c \in Address, i \in ProposalIdInputs},
           {CancelProposalError(c, i) : c \in Address, i \in ProposalIdInputs},
           {GetExecutedAmountError(i) : i \in ProposalIdInputs},
           {GetRequestedAmountError(i) : i \in ProposalIdInputs}}

\* C30: in both variants a public call that fails, its input proof being
\* valid and its transfer accepted, fails with one of the named errors,
\* calls naming a proposal id that is not stored and calls of the owner's
\* setters by somebody else included.
C30_OnlyNamedErrors ==
    (SimpleCallErrors \cup TreasuryCallErrors) \subseteq (NamedErrors \cup {"ok"})

\* C26: at every moment, inside a transfer or between calls, whether withdraw
\* calls are nested in one another or follow one another, no identity has
\* been paid more than the deposits recorded for it: its recorded balance is
\* what it deposited less what it was paid and is never negative, and the
\* contract holds what it records. This is so because the debit is made
\* before the funds leave.
C26_NoDoubleWithdrawal ==
    /\ \A a \in Address :
          /\ g_net[a] >= 0
          /\ deposits[a] = g_net[a]
    /\ sBalance = deposits["o"] + deposits["a"]
    /\ \A i \in 1..Len(frames) :
          /\ frames[i].amount <= frames[i].deposits[frames[i].caller]
          /\ frames[i].g_net[frames[i].caller] >= 0

\* an identity that withdrew half its deposit and, from inside the transfer,
\* the other half: a third withdraw of anything but nothing is refused
C26_Witness ==
    /\ Len(frames) = 2
    /\ frames[1].caller = frames[2].caller
    /\ frames[1].amount = 1 /\ frames[2].amount = 1
    /\ deposits[frames[1].caller] = 0
    /\ g_net[frames[1].caller] = 0
    /\ WithdrawError(frames[1].caller, 1, TRUE) = "InvalidAmount"

\* C31: deposit with no value attached and withdraw of more than the
\* caller's recorded balance fail with InvalidAmount; withdraw of any amount
\* up to and including the full balance, the caller accepting the transfer,
\* succeeds; and a step that changes a balance is a successful deposit,
\* crediting the caller alone with the value, or a successful withdraw,
\* debiting the caller alone by the amount, which leaves the contract.
C31_DepositWithdrawAmounts ==
    /\ [](/\ DepositError(0) = "InvalidAmount"
          /\ \A c \in Address, v \in WithdrawAmounts :
                /\ v > deposits[c] =>
                     \A r \in BOOLEAN : WithdrawError(c, v, r) = "InvalidAmount"
                /\ v <= deposits[c] => WithdrawError(c, v, TRUE) = "ok")
    /\ [][deposits' # deposits =>
            \E c \in Address :
               /\ \A a \in Address \ {c} : deposits'[a] = deposits[a]
               /\ \/ \E v \in Values \ {0} :
                        /\ Deposit(c, v)
                        /\ deposits'[c] = deposits[c] + v
                        /\ sBalance' = sBalance + v
                  \/ \E v \in WithdrawAmounts :
                        /\ Withdraw(c, v, TRUE)
                        /\ v <= deposits[c]
                        /\ deposits'[c] = deposits[c] - v
                        /\ sBalance' = sBalance - v]_vars

\* two identities with different balances: one can withdraw exactly what it
\* has, not more, and not if it refuses the transfer
C31_Witness ==
    \E c \in Address, a \in Address :
        /\ c # a
        /\ deposits[c] = 1 /\ deposits[a] = 2 /\ sBalance = 3
        /\ WithdrawError(c, 1, TRUE) = "ok"
        /\ WithdrawError(c, 2, TRUE) = "InvalidAmount"
        /\ WithdrawError(c, 1, FALSE) = "TransferFailed"

RECURSIVE SumOf(_, _)
\* the sum of f over the identities in S
SumOf(f, S) ==
    IF S = {} THEN 0
    ELSE LET a == CHOOSE x \in S : TRUE IN f[a] + SumOf(f, S \ {a})

\* C34: the funds the contract holds are the sum of the recorded deposit
\* balances, in every reachable state; and a step that changes the
\* proposals, the vote record or the minimum deposit (createProposal, vote,
\* finalizeProposal, updateMinDeposit) changes no balance and moves no
\* funds.
C34_FundsAreDeposits ==
    /\ [](sBalance = SumOf(deposits, Address))
    /\ [][(sProposals' # sProposals \/ hasVoted' # hasVoted
             \/ minDepositToVote' # minDepositToVote) =>
            (deposits' = deposits /\ sBalance' = sBalance)]_vars

\* a proposal was voted for and finalized, and the contract holds the
\* deposits of both identities, none of it paid to the recipient
C34_Witness ==
    \E id \in SimpleIds :
        /\ SimpleP(id).finalized
        /\ SimpleP(id).encryptedYesVotes.val >= 1
        /\ SimpleP(id).amount = 1
        /\ SimpleP(id).recipient \notin Address
        /\ \A a \in Address : deposits[a] = 2
        /\ sBalance = 4

\* C32: a vote that passes the checks succeeds whatever its ballot and marks
\* the caller as having voted; with ballot 1 it adds exactly 1 to the yes
\* tally and nothing to the no tally, with ballot 0 exactly 1 to the no tally
\* and nothing to the yes tally, with any other ballot nothing to either;
\* tallies start at 0 and nothing but a vote changes their plaintexts. So
\* the yes (no) tally is the number of successful votes with ballot 1 (0).
C32_BallotsCounted ==
    /\ [][hasVoted' # hasVoted =>
            \E c \in Address, i \in SimpleIds :
              /\ hasVoted' = hasVoted \cup {<<i, c>>}
              /\ <<i, c>> \notin hasVoted
              /\ \E b \in Ballots : Vote(c, i, b, TRUE)
              /\ \A b \in Ballots :
                   Vote(c, i, b, TRUE) =>
                     /\ VoteError(c, i, TRUE) = "ok"
                     /\ sProposals'[i + 1].encryptedYesVotes.val =
                          (SimpleP(i).encryptedYesVotes.val
                             + (IF b = 1 THEN 1 ELSE 0)) % EuintMod
                     /\ sProposals'[i + 1].encryptedNoVotes.val =
                          (SimpleP(i).encryptedNoVotes.val
                             + (IF b = 0 THEN 1 ELSE 0)) % EuintMod]_vars
    /\ [][sProposals' # sProposals =>
            /\ \A i \in SimpleIds :
                 (hasVoted' = hasVoted) =>
                    /\ sProposals'[i + 1].encryptedYesVotes.val
                          = SimpleP(i).encryptedYesVotes.val
                    /\ sProposals'[i + 1].encryptedNoVotes.val
                          = SimpleP(i).encryptedNoVotes.val
            /\ Len(sProposals') > Len(sProposals) =>
                 /\ sProposals'[Len(sProposals')].encryptedYesVotes.val = 0
                 /\ sProposals'[Len(sProposals')].encryptedNoVotes.val = 0]_vars

\* two identities voted, one with ballot 1 and one with a ballot that is
\* neither 0 nor 1: one yes, no no, two voters
C32_Witness ==
    \E id \in SimpleIds :
        /\ Cardinality(Voters(id)) = 2
        /\ \A a \in Address : g_votes[id + 1][a] = 1
        /\ SimpleP(id).encryptedYesVotes.val = 1
        /\ SimpleP(id).encryptedNoVotes.val = 0

\* C33: for no proposal and no time do a vote and a finalizeProposal both
\* pass: vote needs time <= deadline, finalizeProposal time > deadline. The
\* clock never goes back, so from the first moment finalizeProposal can pass
\* no vote is accepted and the tallies' plaintexts stay as they are: the
\* tallies finalizeProposal grants access to are the final ones.
C33_VoteThenFinalize ==
    /\ [](\A id \in SimpleIds, c \in Address, f \in Address, ok \in BOOLEAN :
            /\ ~(VoteError(c, id, ok) = "ok" /\ FinalizeError(f, id) = "ok")
            /\ now > SimpleP(id).deadline => VoteError(c, id, ok) # "ok"
            /\ SimpleP(id).finalized => now > SimpleP(id).deadline)
    /\ [][now' >= now]_vars
    /\ [][sProposals' # sProposals =>
            \A id \in SimpleIds :
               now > SimpleP(id).deadline =>
                  /\ sProposals'[id + 1].encryptedYesVotes.val
                        = SimpleP(id).encryptedYesVotes.val
                  /\ sProposals'[id + 1].encryptedNoVotes.val
                        = SimpleP(id).encryptedNoVotes.val
                  /\ sProposals'[id + 1].deadline = SimpleP(id).deadline]_vars

\* the deadline instant: a vote still passes and finalizeProposal does not
\* yet, for the same proposal and callers
C33_Witness ==
    \E id \in SimpleIds :
        /\ now = SimpleP(id).deadline
        /\ VoteError(owner, id, TRUE) = "ok"
        /\ FinalizeError(owner, id) = "VotingEnded"
        /\ Voters(id) # {}

\* C40: once the time is past a proposal's deadline, finalizeProposal by the
\* owner and by the proposer passes until the proposal is finalized, whatever
\* their deposits, the minimum deposit and the votes cast; so with a clock
\* that keeps advancing and an owner who keeps calling, every proposal whose
\* deadline lies within the clock's horizon is eventually finalized.
C40_EveryProposalFinalized ==
    /\ [](\A id \in SimpleIds :
            (now > SimpleP(id).deadline /\ ~SimpleP(id).finalized) =>
                /\ FinalizeError(owner, id) = "ok"
                /\ FinalizeError(SimpleP(id).proposer, id) = "ok")
    /\ \A id \in ProposalIdInputs :
          (IF id < Len(sProposals) THEN SimpleP(id).deadline < Horizon ELSE FALSE)
             ~> (IF id < Len(sProposals) THEN SimpleP(id).finalized ELSE FALSE)

\* a proposal nobody voted on, past its deadline, its proposer and the owner
\* both below the minimum deposit: either can finalize it
C40_Witness ==
    \E id \in SimpleIds :
        /\ now > SimpleP(id).deadline
        /\ ~SimpleP(id).finalized
        /\ Voters(id) = {}
        /\ SimpleP(id).proposer # owner
        /\ minDepositToVote = 1
        /\ \A a \in Address : deposits[a] = 0
        /\ FinalizeError(owner, id) = "ok"

\* C35: execute by a member on a stored proposal that is not executed
\* succeeds exactly when yesVotes >= the current quorum, before, at and
\* after the deadline, with no votes when the quorum is 0; when the quorum
\* is not met the time only selects the error, VotingOngoing before the
\* deadline and QuorumNotReached from it on.
C35_ExecuteOnQuorumAlone ==
    \A id \in TreasuryIds, c \in Address :
        (isMember[c] /\ ~TreasuryP(id).executed) =>
            /\ TreasuryP(id).yesVotes >= quorum <=> ExecuteError(c, id) = "ok"
            /\ TreasuryP(id).yesVotes < quorum =>
                  ExecuteError(c, id) =
                     IF now < TreasuryP(id).deadline
                     THEN "VotingOngoing" ELSE "QuorumNotReached"

\* a proposal executed before its deadline with no vote, under quorum 0
C35_Witness ==
    \E id \in TreasuryIds :
        /\ g_executes[id + 1] = 1
        /\ now < TreasuryP(id).deadline
        /\ TreasuryP(id).yesVotes = 0
        /\ quorum = 0
        /\ voted = {}

\* C36: the quorum changes only in a step that is updateQuorum by the owner,
\* which sets it to the value passed; any other caller fails with NotOwner;
\* and execute compares yesVotes with the quorum stored at the call: a step
\* in which a proposal is executed starts in a state where its yesVotes is
\* at least the quorum of that state.
C36_QuorumByOwnerReadAtExecute ==
    /\ [](\A c \in Address :
            UpdateQuorumError(c) = (IF c = owner THEN "ok" ELSE "NotOwner"))
    /\ [][quorum' # quorum =>
            \E q \in Quorums : UpdateQuorum(owner, q) /\ quorum' = q]_vars
    /\ [][g_executes' # g_executes =>
            \A id \in TreasuryIds :
               g_executes'[id + 1] = g_executes[id + 1] + 1 =>
                  /\ TreasuryP(id).yesVotes >= quorum
                  /\ quorum' = quorum]_vars

\* a proposal refused for want of quorum, then executed with the votes it
\* had once the owner had lowered the quorum, which a member who is not the
\* owner could not have done
C36_Witness ==
    \E id \in g_quorumFailed \cap g_relaxed, c \in Address :
        /\ g_executes[id + 1] = 1
        /\ TreasuryP(id).yesVotes = 0
        /\ quorum = 0
        /\ isMember[c] /\ c # owner
        /\ UpdateQuorumError(c) = "NotOwner"

\* C37 (as stated): an identity that is a member and has voted on a
\* proposal fails with AlreadyVoted when it calls voteYes on it again.
C37_VotedMemberIsAlreadyVoted ==
    \A id \in TreasuryIds, c \in Address :
        (isMember[c] /\ <<id, c>> \in voted) => VoteYesError(c, id) = "AlreadyVoted"

\* C37 (amended): yesVotes never decreases and a voted flag is never
\* cleared; a step that changes the membership leaves proposals and flags as
\* they were; an identity that is not a member fails with NotMember in
\* createProposal, voteYes and execute; and a member whose voted flag is set
\* on a proposal, having been removed and added back or not, fails on it
\* with AlreadyVoted up to the deadline and with PastDeadline after it.
C37_VotesOutliveMembership ==
    /\ [](\A c \in Address :
            /\ ~isMember[c] =>
                 /\ \A x \in TreasuryCreateArgs :
                      TreasuryCreateError(c, x[1], x[3], x[4]) = "NotMember"
                 /\ \A i \in ProposalIdInputs :
                      /\ VoteYesError(c, i) = "NotMember"
                      /\ ExecuteError(c, i) = "NotMember"
            /\ \A id \in TreasuryIds :
                 (isMember[c] /\ <<id, c>> \in voted) =>
                    VoteYesError(c, id) =
                       IF now > TreasuryP(id).deadline
                       THEN "PastDeadline" ELSE "AlreadyVoted")
    /\ [][/\ voted \subseteq voted'
           /\ \A id \in TreasuryIds :
                tProposals'[id + 1].yesVotes >= TreasuryP(id).yesVotes
           /\ isMember' # isMember =>
                (tProposals' = tProposals /\ voted' = voted)]_vars

\* both identities voted and one was removed since: its vote still makes
\* the quorum of 2 for the execute of the other, and itself is refused
C37_Witness ==
    \E id \in TreasuryIds, c \in Address, m \in Address :
        /\ <<id, c>> \in voted /\ ~isMember[c]
        /\ isMember[m]
        /\ TreasuryP(id).yesVotes = 2
        /\ quorum = 2
        /\ ExecuteError(m, id) = "ok"
        /\ ExecuteError(c, id) = "NotMember"

\* the sum of the executedEnc plaintexts of the executed proposals
RECURSIVE ExecutedTotal(_)
ExecutedTotal(n) ==
    IF n = 0 THEN 0
    ELSE (IF tProposals[n].executed THEN tProposals[n].executedEnc.val ELSE 0)
         + ExecutedTotal(n - 1)

\* what was deposited, modulo the width, as the treasury and the spends
\* account for it
DepositedTotal == (treasury.val + ExecutedTotal(Len(tProposals))) % EuintMod

\* C38: the spend execute subtracts is never more than the treasury's
\* plaintext, so the subtraction does not wrap; and the treasury's plaintext
\* plus the executedEnc plaintexts of the executed proposals is, modulo the
\* width, the sum of the deposited plaintexts: it is 0 at construction, a
\* deposit adds its plaintext to it and no other step changes it.
C38_TreasuryAccounts ==
    /\ DepositedTotal = 0
    /\ [](\A id \in TreasuryIds :
            /\ ToSpend(TreasuryP(id)).val <= treasury.val
            /\ Spent(TreasuryP(id)).val
                 = treasury.val - ToSpend(TreasuryP(id)).val)
    /\ [][DepositedTotal' =
            IF treasury' # treasury /\ g_executes' = g_executes
            THEN CHOOSE d \in 0..(EuintMod - 1) :
                    \E v \in DepositAmounts :
                       /\ DepositEncrypted(owner, v, TRUE)
                       /\ d = (DepositedTotal + v) % EuintMod
            ELSE DepositedTotal]_vars

\* an execute that spent all the treasury held: what was deposited is what
\* was spent
C38_Witness ==
    \E id \in TreasuryIds :
        /\ g_executes[id + 1] = 1
        /\ TreasuryP(id).executedEnc.val = 2
        /\ treasury.val = 0
        /\ DepositedTotal = 2

\* C39: the two roles are independent and checked first: an owner who is
\* not a member fails with NotMember in createProposal, voteYes and execute,
\* and a member who is not the owner fails with NotOwner in addMember,
\* removeMember, depositEncrypted, updateQuorum and cancelProposal,
\* whatever else is wrong with the call (recipient, period, proof, an id
\* that is not stored, a proposal that is executed or voted on).
C39_RolesIndependent ==
    /\ ~isMember[owner] =>
          /\ \A x \in TreasuryCreateArgs :
                TreasuryCreateError(owner, x[1], x[3], x[4]) = "NotMember"
          /\ \A i \in ProposalIdInputs :
                /\ VoteYesError(owner, i) = "NotMember"
                /\ ExecuteError(owner, i) = "NotMember"
    /\ \A c \in Address \ {owner} :
          isMember[c] =>
             /\ AddMemberError(c) = "NotOwner"
             /\ RemoveMemberError(c) = "NotOwner"
             /\ \A ok \in BOOLEAN : DepositEncryptedError(c, ok) = "NotOwner"
             /\ UpdateQuorumError(c) = "NotOwner"
             /\ \A i \in ProposalIdInputs : CancelProposalError(c, i) = "NotOwner"

\* the owner is not a member and a member is not the owner, with a
\* proposal the member created and executed: each is refused the other's
\* operations on it
C39_Witness ==
    \E id \in TreasuryIds, c \in Address \ {owner} :
        /\ ~isMember[owner] /\ isMember[c]
        /\ g_executes[id + 1] = 1
        /\ ExecuteError(owner, id) = "NotMember"
        /\ CancelProposalError(c, id) = "NotOwner"
        /\ VoteYesError(c, id + 1) = "Panic"

====
